---- MODULE Spec2Model ----
(***************************************************************************)
(* Verification model of rust_core: the shared-memory transport, the       *)
(* position tracker and the limit order book.                              *)
(*   - ShmRingBuffer (src/rust_core/src/ipc.rs): a single-producer /       *)
(*     single-consumer ring of fixed-size slots with two volatile cursors. *)
(*   - FastGate (src/rust_core/src/risk.rs): the risk gate with its        *)
(*     cross-process kill-switch byte.                                     *)
(*   - RustPositionTracker (src/rust_core/src/positions.rs): fixed-point   *)
(*     net quantity, average price, realized P&L and fees per key.         *)
(*   - LimitOrderBook (src/rust_core/src/lob.rs): one ordered map from     *)
(*     scaled price to quantity per side.                                  *)
(*   - The constructors' handling of the files under /dev/shm.             *)
(* Each component has its own specification; the variables of the other    *)
(* components stay at their initial values in it.                          *)
(* In the transport,                                                       *)
(* every handler is split at its accesses to shared memory: one step per   *)
(* volatile load, per (half of a) slot copy and per volatile store.        *)
(* Cursors are u64 in the source; here they stay below MaxWrites, far from *)
(* 2^64, so the only u64 effect that is modelled is the subtraction        *)
(* write_cursor - read_cursor (see Full and W_Overflow).                   *)
(***************************************************************************)
EXTENDS Integers, Sequences, FiniteSets, TLC

\* ---------------------------------------------------------------- bounds
\* Largest capacity a segment is created with.
MaxCapacity == 2
\* Bound on the number of writes that return true.
MaxWrites == 4
\* Number of FastGate instances mapping one kill-switch segment.
MaxGates == 2
\* Prices, quantities and limits are the integers -MaxVal..MaxVal, and NaN.
MaxVal == 2
\* Bound on the number of handles constructed on the existing segment.
MaxOpens == 1
\* Bound on the number of producer crashes in one run.
MaxCrashes == 1

\* ------------------------------------------------------ program constants
SLOT_SIZE == 64

VARIABLES
    \* --- the shared segment (ipc.rs) ---
    capacity,       \* ShmRingBuffer.capacity, the same in every handle
    write_cursor,   \* header word 0
    read_cursor,    \* header word 1
    slots,          \* slot index -> SLOT_SIZE bytes
    \* --- the producer's call of write ---
    p_pc,           \* position in write
    p_wc,           \* local write_cursor of write
    p_rc,           \* local read_cursor of write
    p_data,         \* the argument data
    p_ret,          \* what the last call of write returned ("none" while one runs)
    \* --- the consumer's call of read ---
    c_pc,           \* position in read
    c_wc,           \* local write_cursor of read
    c_rc,           \* local read_cursor of read
    c_bytes,        \* the bytes copied out of the slot so far
    c_ret,          \* what the last call of read returned ("none" while one runs)
    \* --- a process constructing a further handle (ShmRingBuffer::new) ---
    o_pc,           \* position in new
    o_create,       \* the argument create
    opens,          \* number of calls of new on the existing segment so far
    \* --- history variables (not program state) ---
    written,        \* payloads of the writes that returned true, in order
    readlog,        \* slots returned by the reads that returned Some, in order
    crashes,        \* number of producer crashes so far
    torn,           \* slot index left partially written by a crash, or -1
    p_start_rc,     \* read_cursor when the running write was called (0 when none runs)
    \* --- the kill-switch segment and the gates (risk.rs) ---
    kill,           \* the shared byte mmap[0]
    max_price,      \* gate -> FastGate.max_price
    max_qty,        \* gate -> FastGate.max_qty
    g_pc,           \* gate -> position in check
    g_flag,         \* gate -> local kill_flag of check
    g_price,        \* gate -> argument price of the running / last check
    g_qty,          \* gate -> argument qty of the running / last check
    g_ret,          \* gate -> what the last check returned
    \* --- history variables of the gate ---
    last_write,     \* the value of the most recent write to the byte
    g_seen,         \* gate -> the byte's value when the running check started
    \* --- the position tracker (positions.rs) ---
    positions,      \* RustPositionTracker.positions: key -> PositionState
    t_op,           \* the last call on the tracker and its arguments
    t_ret,          \* what that call returned
    \* --- history variables of the tracker ---
    t_prev,         \* positions when that call started
    t_fills,        \* number of calls of update so far
    t_net,          \* key -> signed sum of the fills since its record was created
    \* --- a second tracker, which gets the calls made with WatchedKey only ---
    twin,           \* its map
    twin_ret,       \* what its update returned, when the last call was one
    \* --- the limit order book (lob.rs) ---
    bids,           \* LimitOrderBook.bids: scaled price -> quantity
    asks,           \* LimitOrderBook.asks: scaled price -> quantity
    l_op,           \* the last call on the book: its name, side and depth
    l_ret,          \* the levels the last top_bids / top_asks returned
    \* --- history variable of the book ---
    l_last,         \* <<is_bid, scaled price>> -> quantity of the latest update
    \* --- the files under /dev/shm and the last constructor call ---
    files,          \* path -> [len, byte0] of the files that exist
    n_op,           \* the last constructor call and its arguments
    n_ret,          \* "Ok" or "Err": what it returned ("none" before any call)
    \* --- history variable of construction ---
    n_existed,      \* whether the file existed when that call started
    n_byte,         \* the file's first byte when that call started (0 if none)
    n_fresh,        \* no process has stored into a file since that call
    n_check,        \* what the first check of the gate it built returned
    \* --- several processes calling write and read on one segment ---
    m_writers,      \* the processes that call write
    m_readers,      \* the processes that call read
    m_pc,           \* process -> position in its call
    m_wc,           \* process -> its local write_cursor
    m_rc,           \* process -> its local read_cursor
    m_data,         \* writer -> the argument data; reader -> the slot copied out
    \* --- history variables of these processes ---
    m_calls,        \* number of calls started so far
    m_true,         \* payloads of the calls of write that returned true, in order
    m_some,         \* slots returned by the calls of read that returned Some, in order
    \* --- the top-of-book feed and the three OFI implementations ---
    series,         \* the observations received so far, oldest first
    kern,           \* LobFeatureKernelV1: prev_* fields, ofi_l1_cum, initialized
    rl,             \* RLStrategy: prev_best_bid, prev_best_ask, prev_bid_qty, prev_ask_qty
    a_out,          \* what the last AlphaOFI.compute returned, with its two flows
    \* --- history variables of the OFI implementations ---
    k_pos,          \* number of observations the kernel has been fed
    k_out,          \* per call of update: b_flow, a_flow and ofi_l1_raw
    r_pos,          \* number of observations the strategy has been fed
    r_out,          \* per call of on_depth: d_bid, d_ask and raw_ofi
    a_in,           \* the series the last AlphaOFI.compute was given
    k_fresh,        \* a kernel constructed when kern was last reset, given the same calls since
    k_fresh_out,    \* what the last update of that kernel returned
    k_was_reset,    \* reset has been called on the kernel
    \* --- MatchedFilterTradeFlow ---
    fast_window,
    slow_window,
    trade_vol_history,
    trade_side_history,
    sum_signed_flow_fast,
    sum_vol_slow,
    \* --- history variables of MatchedFilterTradeFlow ---
    f_calls,        \* number of calls of update so far
    f_ret,          \* what the last update returned (<<>> before any call)
    f_seen,         \* every <<trade_vol, trade_side>> passed to update, oldest first
    \* --- MetaAlpha ---
    meta,           \* the instance: its windows and every state field
    \* --- history variables of MetaAlpha ---
    ma_calls,       \* number of calls of update so far
    ma_ret,         \* what the last update returned
    ma_flow,        \* a MatchedFilterTradeFlow with the same windows, given the same trades
    ma_fresh,       \* an instance constructed when meta was last reset, given the same calls since
    ma_fresh_ret,   \* what the last update of that instance returned
    ma_was_reset,   \* reset has been called
    \* --- HawkesTracker ---
    hawk,           \* the tracker: mu, alpha, beta, last_ts, intensity
    \* --- history variables of HawkesTracker ---
    h_calls,        \* number of calls of update so far
    h_op,           \* the last call of update: current_ts, is_event
    h_prev,         \* the tracker before that call
    h_ret,          \* what that call returned
    \* --- the book signals AlphaDepthSlope, AlphaRegimePressure, AlphaRegimeReversal ---
    dslope,         \* AlphaDepthSlope: alpha, ewma_signal, initialized
    press,          \* AlphaRegimePressure: vol_alpha, ewma_variance, prev_mid, vol_threshold, initialized
    rev,            \* AlphaRegimeReversal: the same five fields, window_size, buffer, sum, idx, count
    \* --- history variables of the book signals ---
    s_calls,        \* number of calls of calculate so far, over the three signals
    s_op,           \* the last call of calculate: the signal, and whether the book had an empty side
    d_ret,          \* what the last AlphaDepthSlope.calculate returned
    d_first,        \* that call was the first one of the instance
    pr_ret,         \* what the last AlphaRegimePressure.calculate returned
    r_ret,          \* what the last AlphaRegimeReversal.calculate returned
    r_mids,         \* the mid prices AlphaRegimeReversal.calculate computed, oldest first
    r_prev          \* the AlphaRegimeReversal before its last calculate

ringVars == <<capacity, write_cursor, read_cursor, slots,
              p_pc, p_wc, p_rc, p_data, p_ret,
              c_pc, c_wc, c_rc, c_bytes, c_ret,
              o_pc, o_create, opens,
              written, readlog, crashes, torn, p_start_rc>>

gateVars == <<kill, max_price, max_qty, g_pc, g_flag, g_price, g_qty, g_ret,
              last_write, g_seen>>

posVars == <<positions, t_op, t_ret, t_prev, t_fills, t_net, twin, twin_ret>>

lobVars == <<bids, asks, l_op, l_ret, l_last>>

conVars == <<files, n_op, n_ret, n_existed, n_byte, n_fresh, n_check>>

mpVars == <<m_writers, m_readers, m_pc, m_wc, m_rc, m_data, m_calls, m_true, m_some>>

ofiVars == <<series, kern, rl, a_out, k_pos, k_out, r_pos, r_out, a_in,
             k_fresh, k_fresh_out, k_was_reset>>

flowVars == <<fast_window, slow_window, trade_vol_history, trade_side_history,
              sum_signed_flow_fast, sum_vol_slow, f_calls, f_ret, f_seen>>

metaVars == <<meta, ma_calls, ma_ret, ma_flow, ma_fresh, ma_fresh_ret, ma_was_reset>>

hawkVars == <<hawk, h_calls, h_op, h_prev, h_ret>>

sigVars == <<dslope, press, rev, s_calls, s_op, d_ret, d_first, pr_ret, r_ret, r_mids, r_prev>>

vars == <<ringVars, gateVars, posVars, lobVars, conVars, mpVars, ofiVars, flowVars, metaVars, hawkVars, sigVars>>

\* ------------------------------------------------------------- helpers
Min(a, b) == IF a <= b THEN a ELSE b

\* A payload of len bytes, all equal to b.
Fill(len, b) == [i \in 1..len |-> b]

\* The payloads the producer is called with: one shorter than a slot, one
\* longer than a slot.
Payloads == {Fill(1, 1), Fill(SLOT_SIZE + 1, 3)}

ZeroSlot == Fill(SLOT_SIZE, 0)

\* ------------------------------------------- ShmRingBuffer: pure parts
\* ipc.rs:67  write_cursor - read_cursor >= self.capacity as u64.
\* The subtraction is u64: when wc < rc a release build wraps to
\* 2^64 - (rc - wc), which is >= any capacity (W_Overflow is the debug build).
Full_OneSlotFree(wc, rc) == IF wc < rc THEN TRUE ELSE wc - rc >= capacity - 1

Full_OffByOne(wc, rc) == IF wc < rc THEN TRUE ELSE wc - rc > capacity

Full(wc, rc) == IF wc < rc THEN TRUE ELSE wc - rc >= capacity

Empty_OffByOne(wc, rc) == rc > wc

\* ipc.rs:94  read_cursor >= write_cursor
Empty(wc, rc) == rc >= wc

\* ipc.rs:71 and ipc.rs:98  (cursor as usize) % self.capacity
SlotIdx(cursor) == cursor % capacity

\* ipc.rs:77  data.len().min(SLOT_SIZE)
CopyLen(data) == Min(Len(data), SLOT_SIZE)

CopyBytes_Clears(slot, data, from, to) ==
    [i \in 1..SLOT_SIZE |-> IF from <= i /\ i <= to THEN data[i]
                            ELSE IF i < from THEN slot[i] ELSE 0]

\* copy_nonoverlapping of the bytes from..to of data into a slot; the other
\* bytes of the slot keep what they held.
CopyBytes(slot, data, from, to) ==
    [i \in 1..SLOT_SIZE |-> IF from <= i /\ i <= to THEN data[i] ELSE slot[i]]

\* The copy is not atomic: it is modelled as two steps, the first copying the
\* bytes 1..HeadLen(n) of the n bytes.
HeadLen(n) == n \div 2

\* ------------------------------------------------ the other subsystems
RingIdle == UNCHANGED <<gateVars, posVars, lobVars, conVars, mpVars, ofiVars, flowVars, metaVars, hawkVars, sigVars>>

\* ------------------------------------------- ShmRingBuffer::write steps
\* ipc.rs:64  let write_cursor = read_volatile(header_ptr.add(0))
W_LoadWrite(data) ==
    /\ p_pc = "idle"
    /\ Len(written) < MaxWrites
    /\ p_pc' = "w_load_read"
    /\ p_data' = data
    /\ p_wc' = write_cursor
    /\ p_start_rc' = read_cursor
    /\ p_ret' = "none"
    /\ UNCHANGED <<capacity, write_cursor, read_cursor, slots, p_rc,
                   c_pc, c_wc, c_rc, c_bytes, c_ret, o_pc, o_create, opens,
                   written, readlog, crashes, torn>>
    /\ RingIdle

\* ipc.rs:65  let read_cursor = read_volatile(header_ptr.add(1))
W_LoadRead ==
    /\ p_pc = "w_load_read"
    /\ p_pc' = "w_check"
    /\ p_rc' = read_cursor
    /\ UNCHANGED <<capacity, write_cursor, read_cursor, slots, p_wc, p_data,
                   p_ret, c_pc, c_wc, c_rc, c_bytes, c_ret, o_pc, o_create, opens,
                   written, readlog, crashes, torn, p_start_rc>>
    /\ RingIdle

\* A write that does not stop on a full buffer.
W_Full_NoBackpressure ==
    /\ p_pc = "w_check"
    /\ Full(p_wc, p_rc)
    /\ p_pc' = "w_copy_head"
    /\ UNCHANGED <<capacity, write_cursor, read_cursor, slots, p_wc, p_rc,
                   p_data, p_ret, c_pc, c_wc, c_rc, c_bytes, c_ret, o_pc,
                   o_create, opens, written, readlog, crashes, torn, p_start_rc>>
    /\ RingIdle

\* ipc.rs:67-69  if full { return Ok(false) }
W_Full ==
    /\ p_pc = "w_check"
    /\ Full(p_wc, p_rc)
    /\ p_pc' = "idle"
    /\ p_ret' = "false"
    /\ p_wc' = 0
    /\ p_rc' = 0
    /\ p_data' = <<>>
    /\ p_start_rc' = 0
    /\ UNCHANGED <<capacity, write_cursor, read_cursor, slots,
                   c_pc, c_wc, c_rc, c_bytes, c_ret, o_pc, o_create, opens,
                   written, readlog, crashes, torn>>
    /\ RingIdle

\* A write that publishes the slot before copying into it.
W_Room_BumpFirst ==
    /\ p_pc = "w_check"
    /\ ~Full(p_wc, p_rc)
    /\ p_pc' = "w_copy_head"
    /\ write_cursor' = p_wc + 1
    /\ UNCHANGED <<capacity, read_cursor, slots, p_wc, p_rc,
                   p_data, p_ret, c_pc, c_wc, c_rc, c_bytes, c_ret, o_pc,
                   o_create, opens, written, readlog, crashes, torn, p_start_rc>>
    /\ RingIdle

\* ipc.rs:67, 71-77  not full: fall through to the copy
W_Room ==
    /\ p_pc = "w_check"
    /\ ~Full(p_wc, p_rc)
    /\ p_pc' = "w_copy_head"
    /\ UNCHANGED <<capacity, write_cursor, read_cursor, slots, p_wc, p_rc,
                   p_data, p_ret, c_pc, c_wc, c_rc, c_bytes, c_ret, o_pc,
                   o_create, opens, written, readlog, crashes, torn, p_start_rc>>
    /\ RingIdle

\* ipc.rs:78  copy_nonoverlapping(data.as_ptr(), dest, len), first part
W_CopyHead ==
    /\ p_pc = "w_copy_head"
    /\ p_pc' = "w_copy_tail"
    /\ slots' = [slots EXCEPT ![SlotIdx(p_wc)] =
                    CopyBytes(@, p_data, 1, HeadLen(CopyLen(p_data)))]
    /\ UNCHANGED <<capacity, write_cursor, read_cursor, p_wc, p_rc, p_data,
                   p_ret, c_pc, c_wc, c_rc, c_bytes, c_ret, o_pc, o_create, opens,
                   written, readlog, crashes, torn, p_start_rc>>
    /\ RingIdle

\* ipc.rs:78  copy_nonoverlapping(data.as_ptr(), dest, len), the rest
W_CopyTail ==
    /\ p_pc = "w_copy_tail"
    /\ p_pc' = "w_bump"
    /\ slots' = [slots EXCEPT ![SlotIdx(p_wc)] =
                    CopyBytes(@, p_data, HeadLen(CopyLen(p_data)) + 1,
                              CopyLen(p_data))]
    /\ UNCHANGED <<capacity, write_cursor, read_cursor, p_wc, p_rc, p_data,
                   p_ret, c_pc, c_wc, c_rc, c_bytes, c_ret, o_pc, o_create, opens,
                   written, readlog, crashes, torn, p_start_rc>>
    /\ RingIdle

\* ipc.rs:81-82  write_volatile(header_ptr.add(0), write_cursor + 1); Ok(true)
W_Bump ==
    /\ p_pc = "w_bump"
    /\ p_pc' = "idle"
    /\ write_cursor' = p_wc + 1
    /\ p_ret' = "true"
    /\ written' = Append(written, p_data)
    /\ torn' = IF torn = SlotIdx(p_wc) THEN -1 ELSE torn
    /\ p_wc' = 0
    /\ p_rc' = 0
    /\ p_data' = <<>>
    /\ p_start_rc' = 0
    /\ UNCHANGED <<capacity, read_cursor, slots, c_pc, c_wc, c_rc, c_bytes,
                   c_ret, o_pc, o_create, opens, readlog, crashes>>
    /\ RingIdle

\* The producer process dies inside write, at any step before the store of
\* ipc.rs:81; a new producer process takes its place. Its locals are lost,
\* shared memory keeps what was copied so far.
P_Crash ==
    /\ p_pc \in {"w_load_read", "w_check", "w_copy_head", "w_copy_tail", "w_bump"}
    /\ crashes < MaxCrashes
    /\ crashes' = crashes + 1
    /\ torn' = IF p_pc \in {"w_copy_tail", "w_bump"} THEN SlotIdx(p_wc) ELSE torn
    /\ p_pc' = "idle"
    /\ p_ret' = "crash"
    /\ p_wc' = 0
    /\ p_rc' = 0
    /\ p_data' = <<>>
    /\ p_start_rc' = 0
    /\ UNCHANGED <<capacity, write_cursor, read_cursor, slots,
                   c_pc, c_wc, c_rc, c_bytes, c_ret, o_pc, o_create, opens,
                   written, readlog>>
    /\ RingIdle

\* -------------------------------------------- ShmRingBuffer::read steps
\* ipc.rs:91  let write_cursor = read_volatile(header_ptr.add(0))
R_LoadWrite ==
    /\ c_pc = "idle"
    /\ c_pc' = "r_load_read"
    /\ c_wc' = write_cursor
    /\ c_ret' = "none"
    /\ UNCHANGED <<capacity, write_cursor, read_cursor, slots, p_pc, p_wc,
                   p_rc, p_data, p_ret, c_rc, c_bytes, o_pc, o_create, opens,
                   written, readlog, crashes, torn, p_start_rc>>
    /\ RingIdle

\* ipc.rs:92  let read_cursor = read_volatile(header_ptr.add(1))
R_LoadRead ==
    /\ c_pc = "r_load_read"
    /\ c_pc' = "r_check"
    /\ c_rc' = read_cursor
    /\ UNCHANGED <<capacity, write_cursor, read_cursor, slots, p_pc, p_wc,
                   p_rc, p_data, p_ret, c_wc, c_bytes, c_ret, o_pc, o_create, opens,
                   written, readlog, crashes, torn, p_start_rc>>
    /\ RingIdle

\* A read that consumes a slot although it returns None.
R_Empty_Advances ==
    /\ c_pc = "r_check"
    /\ Empty(c_wc, c_rc)
    /\ c_pc' = "idle"
    /\ c_ret' = "None"
    /\ read_cursor' = c_rc + 1
    /\ c_wc' = 0
    /\ c_rc' = 0
    /\ UNCHANGED <<capacity, write_cursor, slots, p_pc, p_wc,
                   p_rc, p_data, p_ret, c_bytes, o_pc, o_create, opens,
                   written, readlog, crashes, torn, p_start_rc>>
    /\ RingIdle

\* ipc.rs:94-96  if read_cursor >= write_cursor { return Ok(None) }
R_Empty ==
    /\ c_pc = "r_check"
    /\ Empty(c_wc, c_rc)
    /\ c_pc' = "idle"
    /\ c_ret' = "None"
    /\ c_wc' = 0
    /\ c_rc' = 0
    /\ UNCHANGED <<capacity, write_cursor, read_cursor, slots, p_pc, p_wc,
                   p_rc, p_data, p_ret, c_bytes, o_pc, o_create, opens,
                   written, readlog, crashes, torn, p_start_rc>>
    /\ RingIdle

\* ipc.rs:94, 98-102  not empty: fall through to the copy
R_Avail ==
    /\ c_pc = "r_check"
    /\ ~Empty(c_wc, c_rc)
    /\ c_pc' = "r_copy_head"
    /\ c_bytes' = <<>>
    /\ UNCHANGED <<capacity, write_cursor, read_cursor, slots, p_pc, p_wc,
                   p_rc, p_data, p_ret, c_wc, c_rc, c_ret, o_pc, o_create, opens,
                   written, readlog, crashes, torn, p_start_rc>>
    /\ RingIdle

\* ipc.rs:102-105  PyBytes::new_bound(py, bytes): copies the SLOT_SIZE bytes
\* of the slot, first part
R_CopyHead ==
    /\ c_pc = "r_copy_head"
    /\ c_pc' = "r_copy_tail"
    /\ c_bytes' = SubSeq(slots[SlotIdx(c_rc)], 1, HeadLen(SLOT_SIZE))
    /\ UNCHANGED <<capacity, write_cursor, read_cursor, slots, p_pc, p_wc,
                   p_rc, p_data, p_ret, c_wc, c_rc, c_ret, o_pc, o_create, opens,
                   written, readlog, crashes, torn, p_start_rc>>
    /\ RingIdle

\* ipc.rs:102-105  PyBytes::new_bound(py, bytes), the rest
R_CopyTail ==
    /\ c_pc = "r_copy_tail"
    /\ c_pc' = "r_bump"
    /\ c_bytes' = c_bytes \o SubSeq(slots[SlotIdx(c_rc)],
                                    HeadLen(SLOT_SIZE) + 1, SLOT_SIZE)
    /\ UNCHANGED <<capacity, write_cursor, read_cursor, slots, p_pc, p_wc,
                   p_rc, p_data, p_ret, c_wc, c_rc, c_ret, o_pc, o_create, opens,
                   written, readlog, crashes, torn, p_start_rc>>
    /\ RingIdle

\* ipc.rs:108-110  write_volatile(header_ptr.add(1), read_cursor + 1); Ok(Some)
R_Bump ==
    /\ c_pc = "r_bump"
    /\ c_pc' = "idle"
    /\ read_cursor' = c_rc + 1
    /\ c_ret' = "Some"
    /\ readlog' = Append(readlog, c_bytes)
    /\ c_wc' = 0
    /\ c_rc' = 0
    /\ c_bytes' = <<>>
    /\ UNCHANGED <<capacity, write_cursor, slots, p_pc, p_wc, p_rc, p_data,
                   p_ret, o_pc, o_create, opens, written, crashes, torn, p_start_rc>>
    /\ RingIdle

\* ipc.rs:67  the same subtraction in a build with overflow checks: it
\* panics when write_cursor < read_cursor, and the call ends with an error.
W_Overflow ==
    /\ p_pc = "w_check"
    /\ p_wc < p_rc
    /\ p_pc' = "idle"
    /\ p_ret' = "panic"
    /\ p_wc' = 0
    /\ p_rc' = 0
    /\ p_data' = <<>>
    /\ p_start_rc' = 0
    /\ UNCHANGED <<capacity, write_cursor, read_cursor, slots,
                   c_pc, c_wc, c_rc, c_bytes, c_ret, o_pc, o_create, opens,
                   written, readlog, crashes, torn>>
    /\ RingIdle

\* -------------------- ShmRingBuffer::new on a segment that already exists
\* ipc.rs:21-44  open the file (it exists, so create(create) creates nothing),
\* set_len(size) when create (the same size: the contents stay), map it.
O_Open(create) ==
    /\ o_pc = "idle"
    /\ opens < MaxOpens
    /\ opens' = opens + 1
    /\ o_pc' = "o_mapped"
    /\ o_create' = create
    /\ UNCHANGED <<capacity, write_cursor, read_cursor, slots,
                   p_pc, p_wc, p_rc, p_data, p_ret,
                   c_pc, c_wc, c_rc, c_bytes, c_ret,
                   written, readlog, crashes, torn, p_start_rc>>
    /\ RingIdle

\* ipc.rs:47, 54-59  if create is false the header is left alone
O_KeepHeader ==
    /\ o_pc = "o_mapped"
    /\ ~o_create
    /\ o_pc' = "idle"
    /\ UNCHANGED <<capacity, write_cursor, read_cursor, slots,
                   p_pc, p_wc, p_rc, p_data, p_ret,
                   c_pc, c_wc, c_rc, c_bytes, c_ret, o_create, opens,
                   written, readlog, crashes, torn, p_start_rc>>
    /\ RingIdle

\* ipc.rs:47-49  if create { write_volatile(header_ptr.add(0), 0) }
O_ZeroWrite ==
    /\ o_pc = "o_mapped"
    /\ o_create
    /\ o_pc' = "o_zero_read"
    /\ write_cursor' = 0
    /\ UNCHANGED <<capacity, read_cursor, slots,
                   p_pc, p_wc, p_rc, p_data, p_ret,
                   c_pc, c_wc, c_rc, c_bytes, c_ret, o_create, opens,
                   written, readlog, crashes, torn, p_start_rc>>
    /\ RingIdle

\* ipc.rs:50, 54-59  write_volatile(header_ptr.add(1), 0); Ok(handle)
O_ZeroRead ==
    /\ o_pc = "o_zero_read"
    /\ o_pc' = "idle"
    /\ read_cursor' = 0
    /\ UNCHANGED <<capacity, write_cursor, slots,
                   p_pc, p_wc, p_rc, p_data, p_ret,
                   c_pc, c_wc, c_rc, c_bytes, c_ret, o_create, opens,
                   written, readlog, crashes, torn, p_start_rc>>
    /\ RingIdle

\* ------------------------------------------------------ initial states
\* The segment right after ShmRingBuffer::new(name, capacity, true) on a new
\* file: set_len zero-fills it (ipc.rs:37) and the header is zeroed
\* (ipc.rs:49-50). No call is running.
RingInit ==
    /\ capacity \in 1..MaxCapacity
    /\ write_cursor = 0
    /\ read_cursor = 0
    /\ slots = [i \in 0..(capacity - 1) |-> ZeroSlot]
    /\ p_pc = "idle" /\ p_wc = 0 /\ p_rc = 0 /\ p_data = <<>> /\ p_ret = "none"
    /\ c_pc = "idle" /\ c_wc = 0 /\ c_rc = 0 /\ c_bytes = <<>> /\ c_ret = "none"
    /\ o_pc = "idle" /\ o_create = FALSE /\ opens = 0
    /\ written = <<>> /\ readlog = <<>> /\ crashes = 0 /\ torn = -1
    /\ p_start_rc = 0

\* The gate's variables while only the ring buffer runs.
GateParked ==
    /\ kill = 0
    /\ max_price = <<>> /\ max_qty = <<>>
    /\ g_pc = <<>> /\ g_flag = <<>> /\ g_price = <<>> /\ g_qty = <<>>
    /\ g_ret = <<>>
    /\ last_write = 0 /\ g_seen = <<>>

\* positions.rs:31-35  RustPositionTracker::new: an empty map, no call made.
NoCall == [op |-> "none", key |-> "", side |-> 0, qty |-> 0, price |-> 0,
           fee |-> 0, tax |-> 0, ts |-> 0]

PosInit ==
    /\ positions = <<>>
    /\ t_op = NoCall
    /\ t_ret = <<>>
    /\ t_prev = <<>>
    /\ t_fills = 0
    /\ t_net = <<>>
    /\ twin = <<>>
    /\ twin_ret = <<>>

\* lob.rs:26-32  LimitOrderBook::new: two empty maps, no call made.
LobInit ==
    /\ bids = <<>> /\ asks = <<>>
    /\ l_op = [op |-> "none", is_bid |-> FALSE, depth |-> 0]
    /\ l_ret = <<>>
    /\ l_last = <<>>

\* No file exists under /dev/shm and no constructor has been called.
ConInit ==
    /\ files = <<>>
    /\ n_op = [kind |-> "none", name |-> "", capacity |-> 0, create |-> FALSE]
    /\ n_ret = "none"
    /\ n_existed = FALSE
    /\ n_byte = 0
    /\ n_fresh = FALSE
    /\ n_check = <<>>

\* No further process is attached to the segment.
MpInit ==
    /\ m_writers = {} /\ m_readers = {}
    /\ m_pc = <<>> /\ m_wc = <<>> /\ m_rc = <<>> /\ m_data = <<>>
    /\ m_calls = 0 /\ m_true = <<>> /\ m_some = <<>>

\* The in-process components and the file system while the transport runs.
\* A fraction num / den of two integers, or NaN.
Rat(num, den) == [nan |-> FALSE, num |-> num, den |-> den]
RatNaN == [nan |-> TRUE, num |-> 0, den |-> 1]
\* a < b for two prices that are not NaN (denominators are positive)
RatLt(a, b) == a.num * b.den < b.num * a.den

\* feature.rs:20-33  LobFeatureKernelV1::new (the three moving averages are
\* fractions)
KernNew ==
    [prev_best_bid |-> 0, prev_best_ask |-> 0, prev_l1_bid_qty |-> 0,
     prev_l1_ask_qty |-> 0, ofi_l1_cum |-> 0,
     ofi_l1_ema8 |-> Rat(0, 1), spread_ema8 |-> Rat(0, 1),
     imbalance_ema8_ppm |-> Rat(0, 1), initialized |-> FALSE]

\* feature.rs:20-33, rl.rs:75-79  the kernel and the strategy as constructed,
\* fed nothing yet; AlphaOFI has no state (alpha_ofi.rs:12-14).
OfiInit ==
    /\ series = <<>>
    /\ kern = KernNew
    /\ k_fresh = KernNew /\ k_fresh_out = <<>> /\ k_was_reset = FALSE
    /\ rl = [prev_best_bid |-> 0, prev_best_ask |-> 0, prev_bid_qty |-> 0,
             prev_ask_qty |-> 0]
    /\ a_out = <<>> /\ a_in = <<>>
    /\ k_pos = 0 /\ k_out = <<>>
    /\ r_pos = 0 /\ r_out = <<>>

\* alpha_flow.rs:25-34  MatchedFilterTradeFlow::new(fast_window, slow_window)
FlowNew(fast, slow) ==
    /\ fast_window = fast /\ slow_window = slow
    /\ trade_vol_history = <<>> /\ trade_side_history = <<>>
    /\ sum_signed_flow_fast = 0 /\ sum_vol_slow = 0
    /\ f_calls = 0 /\ f_ret = <<>> /\ f_seen = <<>>

\* No trade-flow factor is in use.
FlowInit == FlowNew(1, 1)

\* A signal that is 0.0 because nothing has been computed yet.
ZeroSignal == [zero |-> TRUE]

\* alpha_meta.rs:110-146  MetaAlpha::new. The Hawkes parameters are in
\* hundredths (mu 0.02, alpha 0.2, beta 0.1). hawkes_intensity is kept as the
\* coefficients c of  hawkes_mu + c[1] + c[2]*d + c[3]*d^2 + ...  with
\* d = exp(-hawkes_beta): 0.0 is mu - mu.
MetaNew(fast, slow, vol_short, vol_long) ==
    [fast_window |-> fast, slow_window |-> slow,
     vol_short_window |-> vol_short, vol_long_window |-> vol_long,
     trade_vol_history |-> <<>>, trade_side_history |-> <<>>,
     sum_signed_flow_fast |-> 0, sum_vol_slow |-> 0,
     bid_qty_history |-> <<>>, ask_qty_history |-> <<>>,
     ofi_sum |-> Rat(0, 1),
     hawkes_intensity |-> <<0 - 2>>,
     hawkes_mu |-> 2, hawkes_alpha |-> 20, hawkes_beta |-> 10,
     returns_history |-> <<>>, last_price |-> 0,
     signal_dynamic |-> ZeroSignal, signal_interaction |-> ZeroSignal]

\* alpha_flow.rs:25-34  MatchedFilterTradeFlow::new, as a record
FlowFresh(fast, slow) ==
    [fast_window |-> fast, slow_window |-> slow,
     trade_vol_history |-> <<>>, trade_side_history |-> <<>>,
     sum_signed_flow_fast |-> 0, sum_vol_slow |-> 0]

\* A MetaAlpha with the given windows, no call made yet.
MetaBuilt(fast, slow, vol_short, vol_long) ==
    /\ meta = MetaNew(fast, slow, vol_short, vol_long)
    /\ ma_fresh = meta
    /\ ma_flow = FlowFresh(fast, slow)
    /\ ma_calls = 0
    /\ ma_ret = ZeroSignal /\ ma_fresh_ret = ZeroSignal
    /\ ma_was_reset = FALSE

\* No MetaAlpha is in use.
MetaInit == MetaBuilt(1, 1, 1, 1)

\* strategy.rs:14-22  HawkesTracker::new(mu, alpha, beta). mu and beta stay
\* symbols. intensity is kept as the jumps it is made of: the sequence of
\* <<c, age>> stands for  mu + sum of c * exp(-beta * age / 1e9);  the empty
\* sequence is mu itself.
HawkesNew(alpha) ==
    [mu |-> "mu", alpha |-> alpha, beta |-> "beta", last_ts |-> 0, intensity |-> <<>>]

\* A tracker with the given alpha, no call made yet.
HawkesBuilt(alpha) ==
    /\ hawk = HawkesNew(alpha)
    /\ h_calls = 0
    /\ h_op = [current_ts |-> 0, is_event |-> FALSE]
    /\ h_prev = hawk
    /\ h_ret = <<>>

\* No tracker is in use.
HawkInit == HawkesBuilt(1)

\* alpha.rs:14-21  AlphaDepthSlope::new. ewma_signal is kept as the raw signals
\* it has smoothed, oldest first: none is 0.0, one is that raw signal.
DepthSlopeNew(window_size) ==
    [alpha |-> Rat(2, window_size + 1), ewma_signal |-> <<>>, initialized |-> FALSE]

\* alpha_pressure.rs:19-31  AlphaRegimePressure::new
PressureNew(vol_window, vol_threshold) ==
    [vol_alpha |-> Rat(2, vol_window + 1), ewma_variance |-> Rat(0, 1),
     prev_mid |-> RatNaN, vol_threshold |-> vol_threshold, initialized |-> FALSE]

\* alpha_reversal.rs:26-45  AlphaRegimeReversal::new. buffer[i + 1] is the
\* code's buffer[i].
ReversalNew(vol_window, vol_threshold, sma_window) ==
    [vol_alpha |-> Rat(2, vol_window + 1), ewma_variance |-> Rat(0, 1),
     prev_mid |-> RatNaN, vol_threshold |-> vol_threshold,
     window_size |-> sma_window, buffer |-> [i \in 1..sma_window |-> Rat(0, 1)],
     sum |-> Rat(0, 1), idx |-> 0, count |-> 0, initialized |-> FALSE]

\* No calculate has returned yet.
NoSignal == [kind |-> "none", v |-> Rat(0, 1)]

\* The three signals as their constructors leave them.
SigBuilt(window_size, vol_window, vol_threshold, sma_window) ==
    /\ dslope = DepthSlopeNew(window_size)
    /\ press = PressureNew(vol_window, vol_threshold)
    /\ rev = ReversalNew(vol_window, vol_threshold, sma_window)
    /\ s_calls = 0
    /\ s_op = [signal |-> "none", empty |-> FALSE]
    /\ d_ret = <<>> /\ d_first = FALSE
    /\ pr_ret = NoSignal /\ r_ret = NoSignal
    /\ r_mids = <<>>
    /\ r_prev = rev

\* No signal is in use.
SigInit == SigBuilt(1, 1, Rat(0, 1), 1)

RestInit == PosInit /\ LobInit /\ ConInit /\ MpInit /\ SigInit /\ HawkInit /\ MetaInit /\ OfiInit /\ FlowInit

Init == RingInit /\ GateParked /\ RestInit

\* One producer and one consumer on one segment.
Next ==
    \/ \E data \in Payloads : W_LoadWrite(data)
    \/ W_LoadRead
    \/ W_Full
    \/ W_Room
    \/ W_CopyHead
    \/ W_CopyTail
    \/ W_Bump
    \/ P_Crash
    \/ R_LoadWrite
    \/ R_LoadRead
    \/ R_Empty
    \/ R_Avail
    \/ R_CopyHead
    \/ R_CopyTail
    \/ R_Bump

Spec == Init /\ [][Next]_vars

\* The producer and the consumer, and a further process that constructs
\* handles on the segment while they run.
RingOpenNext ==
    \/ Next
    \/ W_Overflow
    \/ \E create \in BOOLEAN : O_Open(create)
    \/ O_KeepHeader
    \/ O_ZeroWrite
    \/ O_ZeroRead

RingOpenSpec == Init /\ [][RingOpenNext]_vars


\* ====================================================================
\* FastGate (risk.rs)
\* ====================================================================
\* f64 values: a number, or NaN, on which every comparison is false.
Num(v) == [nan |-> FALSE, v |-> v]
NaN == [nan |-> TRUE, v |-> 0]
F64Vals == {NaN} \cup {Num(v) : v \in (0 - MaxVal)..MaxVal}

\* x <= 0.0
FLe0(x) == ~x.nan /\ x.v <= 0
\* x > y
FGt(x, y) == ~x.nan /\ ~y.nan /\ x.v > y.v

\* The values an external monitoring process writes into the byte.
ExternalBytes == {0, 2, 255}

\* The arguments of the checks when several gates run: a valid order and an
\* invalid one.
ProbeOrders == {<<Num(1), Num(1)>>, <<Num(0), Num(0 - 1)>>}

Check_FlagIsOne(kill_flag, price, qty, maxp, maxq) ==
    IF kill_flag = 1 THEN <<FALSE, 1>>
    ELSE IF FLe0(price) THEN <<FALSE, 2>>
    ELSE IF FGt(price, maxp) THEN <<FALSE, 3>>
    ELSE IF FLe0(qty) THEN <<FALSE, 5>>
    ELSE IF FGt(qty, maxq) THEN <<FALSE, 4>>
    ELSE <<TRUE, 0>>

Check_QtyCeilingFirst(kill_flag, price, qty, maxp, maxq) ==
    IF kill_flag > 0 THEN <<FALSE, 1>>
    ELSE IF FLe0(price) THEN <<FALSE, 2>>
    ELSE IF FGt(price, maxp) THEN <<FALSE, 3>>
    ELSE IF FGt(qty, maxq) THEN <<FALSE, 4>>
    ELSE IF FLe0(qty) THEN <<FALSE, 5>>
    ELSE <<TRUE, 0>>

\* risk.rs:46-64  what check returns once it has loaded kill_flag
Check(kill_flag, price, qty, maxp, maxq) ==
    IF kill_flag > 0 THEN <<FALSE, 1>>
    ELSE IF FLe0(price) THEN <<FALSE, 2>>
    ELSE IF FGt(price, maxp) THEN <<FALSE, 3>>
    ELSE IF FLe0(qty) THEN <<FALSE, 5>>
    ELSE IF FGt(qty, maxq) THEN <<FALSE, 4>>
    ELSE <<TRUE, 0>>

Gates == DOMAIN g_pc

GateOnly == UNCHANGED <<ringVars, posVars, lobVars, conVars, mpVars, ofiVars, flowVars, metaVars, hawkVars, sigVars>>

\* risk.rs:41-45  let kill_flag = read_volatile(self.mmap.as_ptr())
G_Load(g, price, qty) ==
    /\ g_pc[g] = "idle"
    /\ g_pc' = [g_pc EXCEPT ![g] = "loaded"]
    /\ g_flag' = [g_flag EXCEPT ![g] = kill]
    /\ g_price' = [g_price EXCEPT ![g] = price]
    /\ g_qty' = [g_qty EXCEPT ![g] = qty]
    /\ g_ret' = [g_ret EXCEPT ![g] = <<>>]
    /\ g_seen' = [g_seen EXCEPT ![g] = last_write]
    /\ UNCHANGED <<kill, max_price, max_qty, last_write>>
    /\ GateOnly

\* risk.rs:46-64  the rest of check: it uses only its locals and the limits
G_Return(g) ==
    /\ g_pc[g] = "loaded"
    /\ g_pc' = [g_pc EXCEPT ![g] = "idle"]
    /\ g_ret' = [g_ret EXCEPT ![g] =
                    Check(g_flag[g], g_price[g], g_qty[g], max_price[g], max_qty[g])]
    /\ UNCHANGED <<kill, max_price, max_qty, g_flag, g_price, g_qty,
                   last_write, g_seen>>
    /\ GateOnly

\* A set_kill_switch that never clears the byte.
G_SetKill_Sticky(g, active) ==
    /\ kill' = IF active THEN 1 ELSE kill
    /\ last_write' = IF active THEN 1 ELSE 0
    /\ UNCHANGED <<max_price, max_qty, g_pc, g_flag, g_price, g_qty, g_ret,
                   g_seen>>
    /\ GateOnly

\* risk.rs:67-69  self.mmap[0] = if active { 1 } else { 0 }
G_SetKill(g, active) ==
    /\ kill' = IF active THEN 1 ELSE 0
    /\ last_write' = IF active THEN 1 ELSE 0
    /\ UNCHANGED <<max_price, max_qty, g_pc, g_flag, g_price, g_qty, g_ret,
                   g_seen>>
    /\ GateOnly

\* A monitoring process outside this crate stores a byte in the segment.
X_Write(b) ==
    /\ kill' = b
    /\ last_write' = b
    /\ UNCHANGED <<max_price, max_qty, g_pc, g_flag, g_price, g_qty, g_ret,
                   g_seen>>
    /\ GateOnly

\* The ring buffer's variables while only the gates run.
RingParked == RingInit /\ capacity = 1

\* risk.rs:17-39  n gates constructed on a new segment: set_len(1) makes the
\* byte 0; each gate keeps its own limits, drawn from limits.
GateInit(n, limits) ==
    /\ kill = 0
    /\ last_write = 0
    /\ max_price \in [1..n -> limits]
    /\ max_qty \in [1..n -> limits]
    /\ g_pc = [g \in 1..n |-> "idle"]
    /\ g_flag = [g \in 1..n |-> 0]
    /\ g_price = [g \in 1..n |-> Num(0)]
    /\ g_qty = [g \in 1..n |-> Num(0)]
    /\ g_ret = [g \in 1..n |-> <<>>]
    /\ g_seen = [g \in 1..n |-> 0]

\* One gate, every price, quantity and limit.
GateSpecInit == RingParked /\ GateInit(1, F64Vals) /\ RestInit

GateNext ==
    \/ \E g \in Gates, price \in F64Vals, qty \in F64Vals : G_Load(g, price, qty)
    \/ \E g \in Gates : G_Return(g)
    \/ \E g \in Gates, active \in BOOLEAN : G_SetKill(g, active)
    \/ \E b \in ExternalBytes : X_Write(b)

GateSpec == GateSpecInit /\ [][GateNext]_vars

\* MaxGates gates on one segment, with the limits max_price = max_qty = 1.
GateSharedInit == RingParked /\ GateInit(MaxGates, {Num(1)}) /\ RestInit

GateSharedNext ==
    \/ \E g \in Gates, o \in ProbeOrders : G_Load(g, o[1], o[2])
    \/ \E g \in Gates : G_Return(g)
    \/ \E g \in Gates, active \in BOOLEAN : G_SetKill(g, active)
    \/ \E b \in ExternalBytes : X_Write(b)

GateSharedSpec == GateSharedInit /\ [][GateSharedNext]_vars

\* ====================================================================
\* RustPositionTracker (positions.rs): fixed-point position accounting.
\* All quantities are i64 in the source; the fills below keep every
\* intermediate value below 2^31, so no i64 operation overflows.
\* ====================================================================
\* Bound on the number of calls of update in one run.
MaxFills == 2

\* Position keys "account:strategy:symbol".
Keys == {"a:s:2330", "a:s:2317"}
\* positions.rs:75  Side.BUY == 0; every other value is handled as a sell.
Sides == {0, 1}
\* Fill quantities; positions.rs:95 "qty is always positive".
Qtys == {1, 2}
\* Fill prices in fixed point; i64 in the source, so a negative one is included.
FillPrices == {0 - 3, 1, 2}
\* Pairs <<fee, tax>> in fixed point; i64 in the source (a rebate is negative).
Charges == {<<0, 0>>, <<2, 1>>, <<0 - 1, 0>>}

PosOnly == UNCHANGED <<ringVars, gateVars, lobVars, conVars, mpVars, ofiVars, flowVars, metaVars, hawkVars, sigVars>>

\* positions.rs:13-23  PositionState::new
NewState ==
    [net_qty |-> 0, avg_price_scaled |-> 0, realized_pnl_scaled |-> 0,
     fees_scaled |-> 0, last_update_ts |-> 0]

Abs(x) == IF x < 0 THEN 0 - x ELSE x

\* positions.rs:82-88  the sign of a quantity
Sign(x) == IF x > 0 THEN 1 ELSE IF x < 0 THEN 0 - 1 ELSE 0

TruncDiv_Floor(a, b) == a \div b

\* positions.rs:127  i64 `/` rounds toward zero (\div rounds down).
TruncDiv(a, b) == Sign(a) * Sign(b) * (Abs(a) \div Abs(b))

Charge_FeeOnly(fee, tax) == fee

\* positions.rs:79  fee + tax
Charge(fee, tax) == fee + tax

Closing_EvenFlat(current_sign, fill_sign) == fill_sign # current_sign

Closing_AnyPosition(current_sign, fill_sign) == current_sign # 0

\* positions.rs:91  closing = current_sign != 0 && fill_sign != current_sign
Closing(current_sign, fill_sign) == current_sign # 0 /\ fill_sign # current_sign

ClosePnl_LongOnly(is_buy, avg, price, close_qty) == (price - avg) * close_qty

\* positions.rs:100-106  the P&L of close_qty units closed at price
ClosePnl(is_buy, avg, price, close_qty) ==
    IF is_buy THEN (avg - price) * close_qty ELSE (price - avg) * close_qty

SignedFill_Unsigned(is_buy, qty) == qty

\* positions.rs:76  signed_fill_qty
SignedFill(is_buy, qty) == IF is_buy THEN qty ELSE 0 - qty

Flipped_Never(current_sign, net) == FALSE

\* positions.rs:112  the fill went through zero to the other side
Flipped(current_sign, net) ==
    (current_sign > 0 /\ net < 0) \/ (current_sign < 0 /\ net > 0)

\* positions.rs:75-138  the body of update on the record pos
ApplyFill(pos, side, qty, price, fee, tax, ts) ==
    LET is_buy == side = 0
        signed_fill_qty == SignedFill(is_buy, qty)
        fees == pos.fees_scaled + Charge(fee, tax)
        current_sign == Sign(pos.net_qty)
        fill_sign == IF is_buy THEN 1 ELSE 0 - 1
        net == pos.net_qty + signed_fill_qty
        close_qty == Min(Abs(pos.net_qty), qty)
        total_val == pos.net_qty * pos.avg_price_scaled + signed_fill_qty * price
    IN  IF Closing(current_sign, fill_sign)
        THEN [net_qty |-> net,
              avg_price_scaled |->
                  IF Flipped(current_sign, net) THEN price ELSE pos.avg_price_scaled,
              realized_pnl_scaled |->
                  pos.realized_pnl_scaled
                      + ClosePnl(is_buy, pos.avg_price_scaled, price, close_qty),
              fees_scaled |-> fees,
              last_update_ts |-> ts]
        ELSE [net_qty |-> net,
              avg_price_scaled |->
                  IF pos.net_qty = 0 THEN price
                  ELSE IF net # 0 THEN TruncDiv(total_val, net)
                  ELSE pos.avg_price_scaled,
              realized_pnl_scaled |-> pos.realized_pnl_scaled,
              fees_scaled |-> fees,
              last_update_ts |-> ts]

\* positions.rs:134-139, 147-152  the tuple returned to the caller
AsTuple(pos) ==
    <<pos.net_qty, pos.avg_price_scaled, pos.realized_pnl_scaled, pos.fees_scaled>>

\* positions.rs:146-154  what get returns on the map
Lookup(map, key) ==
    IF key \in DOMAIN map THEN AsTuple(map[key]) ELSE <<0, 0, 0, 0>>

\* positions.rs:163-165  len
TrackerLen(map) == Cardinality(DOMAIN map)

Call(op, key) == [NoCall EXCEPT !.op = op, !.key = key]

\* positions.rs:73-139  the map after update, line 73 inserting a zero record
\* for a new key
MapUpdate(map, key, side, qty, price, fee, tax, ts) ==
    LET old == IF key \in DOMAIN map THEN map[key] ELSE NewState
    IN  [k \in DOMAIN map \cup {key} |->
            IF k = key THEN ApplyFill(old, side, qty, price, fee, tax, ts)
            ELSE map[k]]

\* positions.rs:159  the map after self.positions.remove(key)
MapRemoveKey(map, key) == [k \in DOMAIN map \ {key} |-> map[k]]

\* The key whose calls the second tracker gets as well.
WatchedKey == "a:s:2330"

\* The second tracker and the history variables in a call of update.
AlsoUpdate(key, side, qty, price, fee, tax, ts) ==
    /\ twin' = IF key = WatchedKey
               THEN MapUpdate(twin, key, side, qty, price, fee, tax, ts)
               ELSE twin
    /\ twin_ret' = IF key = WatchedKey THEN Lookup(twin', key) ELSE <<>>
    /\ t_net' = [k \in DOMAIN t_net \cup {key} |->
                    (IF k \in DOMAIN t_net THEN t_net[k] ELSE 0)
                    + (IF k # key THEN 0 ELSE IF side = 0 THEN qty ELSE 0 - qty)]

\* The second tracker and the history variables in a call of reset.
AlsoReset(key) ==
    /\ twin' = IF key = WatchedKey THEN MapRemoveKey(twin, key) ELSE twin
    /\ twin_ret' = <<>>
    /\ t_net' = [k \in DOMAIN t_net \ {key} |-> t_net[k]]

\* The second tracker and the history variables in a call of get or len.
AlsoRead ==
    /\ twin_ret' = <<>>
    /\ UNCHANGED <<twin, t_net>>

\* positions.rs:63-140  update
T_Update(key, side, qty, price, fee, tax, ts) ==
    /\ t_fills < MaxFills
    /\ positions' = MapUpdate(positions, key, side, qty, price, fee, tax, ts)
    /\ t_ret' = AsTuple(positions'[key])
    /\ t_op' = [op |-> "update", key |-> key, side |-> side, qty |-> qty,
                price |-> price, fee |-> fee, tax |-> tax, ts |-> ts]
    /\ t_prev' = positions
    /\ t_fills' = t_fills + 1
    /\ AlsoUpdate(key, side, qty, price, fee, tax, ts)
    /\ PosOnly

T_Get_Inserts(key) ==
    /\ positions' = [k \in DOMAIN positions \cup {key} |->
                        IF k \in DOMAIN positions THEN positions[k] ELSE NewState]
    /\ t_ret' = Lookup(positions, key)
    /\ t_op' = Call("get", key)
    /\ t_prev' = positions
    /\ UNCHANGED t_fills
    /\ AlsoRead
    /\ PosOnly

\* positions.rs:145-155  get takes &self and looks the key up
T_Get(key) ==
    /\ t_ret' = Lookup(positions, key)
    /\ t_op' = Call("get", key)
    /\ t_prev' = positions
    /\ UNCHANGED <<positions, t_fills>>
    /\ AlsoRead
    /\ PosOnly

T_Reset_Zeroes(key) ==
    /\ positions' = [k \in DOMAIN positions |->
                        IF k = key THEN NewState ELSE positions[k]]
    /\ t_ret' = <<>>
    /\ t_op' = Call("reset", key)
    /\ t_prev' = positions
    /\ UNCHANGED t_fills
    /\ AlsoReset(key)
    /\ PosOnly

T_Reset_All(key) ==
    /\ positions' = <<>>
    /\ t_ret' = <<>>
    /\ t_op' = Call("reset", key)
    /\ t_prev' = positions
    /\ UNCHANGED t_fills
    /\ AlsoReset(key)
    /\ PosOnly

\* positions.rs:157-160  reset: self.positions.remove(key)
T_Reset(key) ==
    /\ positions' = MapRemoveKey(positions, key)
    /\ t_ret' = <<>>
    /\ t_op' = Call("reset", key)
    /\ t_prev' = positions
    /\ UNCHANGED t_fills
    /\ AlsoReset(key)
    /\ PosOnly

\* positions.rs:163-165  len
T_Len ==
    /\ t_ret' = <<TrackerLen(positions)>>
    /\ t_op' = Call("len", "")
    /\ t_prev' = positions
    /\ UNCHANGED <<positions, t_fills>>
    /\ AlsoRead
    /\ PosOnly

\* One tracker; the match timestamps of successive fills are 100, 200, ...
PosSpecInit == RingParked /\ GateParked /\ RestInit

PosNext ==
    \/ \E key \in Keys, side \in Sides, qty \in Qtys, price \in FillPrices,
          c \in Charges :
          T_Update(key, side, qty, price, c[1], c[2], 100 * (t_fills + 1))
    \/ \E key \in Keys : T_Get(key)
    \/ \E key \in Keys : T_Reset(key)
    \/ T_Len

PosSpec == PosSpecInit /\ [][PosNext]_vars

\* positions.rs:110-114  a record left flat by a closing fill keeps the average
\* price it had: net_qty 0, avg_price_scaled avg.
FlatRecord(avg) == [NewState EXCEPT !.avg_price_scaled = avg]

\* Two trackers whose record of WatchedKey is flat and differs in the stored
\* average price only.
PosFlatInit ==
    /\ \E a1 \in FillPrices : \E a2 \in FillPrices \ {a1} :
          /\ positions = [k \in {WatchedKey} |-> FlatRecord(a1)]
          /\ twin = [k \in {WatchedKey} |-> FlatRecord(a2)]
    /\ t_net = [k \in {WatchedKey} |-> 0]
    /\ t_op = NoCall /\ t_ret = <<>> /\ t_prev = <<>> /\ t_fills = 0
    /\ twin_ret = <<>>

PosFlatSpecInit ==
    RingParked /\ GateParked /\ PosFlatInit /\ LobInit /\ ConInit /\ MpInit /\ SigInit /\ HawkInit /\ MetaInit /\ OfiInit /\ FlowInit

\* Both trackers get the same updates of WatchedKey.
PosFlatNext ==
    \/ \E side \in Sides, qty \in Qtys, price \in FillPrices, c \in Charges :
          T_Update(WatchedKey, side, qty, price, c[1], c[2], 100 * (t_fills + 1))
    \/ T_Get(WatchedKey)

PosFlatSpec == PosFlatSpecInit /\ [][PosFlatNext]_vars

\* ====================================================================
\* Properties of the ring buffer with one producer and one consumer (Spec)
\* ====================================================================
\* A returned slot carries a payload: its first min(len, SLOT_SIZE) bytes are
\* the payload's.
Matches(bytes, data) ==
    /\ Len(bytes) = SLOT_SIZE
    /\ \A i \in 1..CopyLen(data) : bytes[i] = data[i]

InWrite == p_pc \in {"w_load_read", "w_check", "w_copy_head", "w_copy_tail", "w_bump"}
InWriteCopy == p_pc \in {"w_copy_head", "w_copy_tail"}
InReadCopy == c_pc \in {"r_copy_head", "r_copy_tail"}
ProducerMoved == p_pc' # p_pc \/ p_ret' # p_ret
ConsumerMoved == c_pc' # c_pc \/ c_ret' # c_ret
WriteReturnsTrue == p_ret # "true" /\ p_ret' = "true"
ReadReturnsSome == c_ret # "Some" /\ c_ret' = "Some"

\* C1: the slots returned by the successful reads are, in order, the payloads
\* of the first successful writes: the k-th read that returns Some returns the
\* payload of the k-th write that returned true (write order, nothing lost,
\* nothing returned twice), and every read that returns Some consumes one.
C1_FifoPrefix ==
    /\ Len(readlog) <= Len(written)
    /\ \A i \in 1..Len(readlog) : Matches(readlog[i], written[i])
    /\ Len(readlog) = read_cursor

\* Several messages with different payloads went through a buffer that has
\* wrapped around.
C1_Witness ==
    /\ Len(readlog) > capacity
    /\ readlog[1] # readlog[2]

\* C2: 0 <= write_cursor - read_cursor <= capacity in every state, the
\* subtraction of the two values write has loaded never underflows, and a step
\* changes a cursor only by adding exactly 1, exactly when a call returns
\* true (write_cursor) or Some (read_cursor).
C2_CursorRange ==
    /\ 0 <= write_cursor - read_cursor
    /\ write_cursor - read_cursor <= capacity
    /\ (p_pc = "w_check" => p_wc >= p_rc)

C2_CursorStep ==
    /\ write_cursor' = IF WriteReturnsTrue THEN write_cursor + 1 ELSE write_cursor
    /\ read_cursor' = IF ReadReturnsSome THEN read_cursor + 1 ELSE read_cursor

C2_Cursors == [](C2_CursorRange) /\ [][C2_CursorStep]_vars

\* Both cursors have advanced, and the producer is about to subtract a
\* read_cursor that it loaded when the buffer was full and that the consumer
\* has advanced since.
C2_Witness ==
    /\ p_pc = "w_check"
    /\ p_wc - p_rc = capacity
    /\ p_rc >= 1
    /\ p_rc < read_cursor

\* C3: a write returns false only if the buffer was full when it was called,
\* and it gets past the full check only if the buffer has a free slot at that
\* moment. So from an empty buffer the first capacity writes return true, the
\* next ones return false while no read has completed, and a write called
\* after a read has completed returns true again.
C3_Step ==
    /\ (p_pc = "w_check" /\ p_ret' = "false") => write_cursor - p_start_rc >= capacity
    /\ (p_pc = "w_check" /\ p_pc' = "w_copy_head") => write_cursor - read_cursor < capacity
    /\ (p_pc = "w_copy_head" /\ ProducerMoved /\ p_ret' # "crash") => p_pc' = "w_copy_tail"
    /\ (p_pc = "w_copy_tail" /\ ProducerMoved /\ p_ret' # "crash") => p_pc' = "w_bump"
    /\ (p_pc = "w_bump" /\ ProducerMoved /\ p_ret' # "crash") => p_ret' = "true"

C3_Backpressure == [][C3_Step]_vars

\* capacity writes have returned true, no read has occurred, and the next
\* write has returned false.
C3_Witness ==
    /\ p_ret = "false"
    /\ Len(written) = capacity
    /\ read_cursor = 0
    /\ capacity = MaxCapacity

\* C4: a write whose full check runs while write_cursor - read_cursor >=
\* capacity returns false, and no step of a write up to and including that
\* return changes write_cursor, read_cursor or a slot; and every slot written
\* and not yet read still holds the payload written to it.
C4_FullStep ==
    /\ (ProducerMoved /\ p_pc \in {"idle", "w_load_read", "w_check"})
          => UNCHANGED <<write_cursor, read_cursor, slots>>
    /\ (ProducerMoved /\ p_pc = "w_check" /\ write_cursor - read_cursor >= capacity
          /\ p_ret' # "crash") => (p_ret' = "false" /\ p_pc' = "idle")

C4_UnreadIntact ==
    \A k \in read_cursor..(write_cursor - 1) :
        /\ k + 1 <= Len(written)
        /\ Matches(slots[SlotIdx(k)], written[k + 1])

C4_FullWrite == [][C4_FullStep]_vars /\ [](C4_UnreadIntact)

\* A write has returned false on a full buffer whose slots all hold unread
\* messages, after the buffer has wrapped.
C4_Witness ==
    /\ p_ret = "false"
    /\ write_cursor - read_cursor = capacity
    /\ read_cursor >= 1

\* C5: every step of a read that finds the buffer empty leaves read_cursor,
\* write_cursor and the slots as they are, and the call returns None, each
\* time it is called.
C5_EmptyStep ==
    /\ (ConsumerMoved /\ c_pc \in {"idle", "r_load_read", "r_check"})
          => UNCHANGED <<write_cursor, read_cursor, slots>>
    /\ (ConsumerMoved /\ c_pc = "r_check")
          => IF read_cursor >= c_wc
             THEN c_ret' = "None" /\ c_pc' = "idle"
             ELSE c_pc' = "r_copy_head"

C5_EmptyRead == [][C5_EmptyStep]_vars

\* A read has returned None on a buffer emptied by reads, and a further read
\* is running on it.
C5_Witness ==
    /\ c_ret = "None"
    /\ read_cursor = write_cursor
    /\ read_cursor >= 1

\* C6: until the store that ends write, write_cursor is the value write
\* loaded, so a producer that stops before it leaves write_cursor unchanged and
\* the next write targets the slot it left behind; the consumer only copies
\* slots below write_cursor, never the slot a crashed write left behind nor
\* the slot the producer is copying into, and the bytes it has copied out are
\* those of a write that returned true.
C6_PublishAfterCopy ==
    /\ InWrite => p_wc = write_cursor
    /\ torn # -1 => torn = SlotIdx(write_cursor)
    /\ (InReadCopy \/ c_pc = "r_bump") =>
          /\ c_rc < write_cursor
          /\ (torn # -1 => SlotIdx(c_rc) # torn)
          /\ (InWriteCopy \/ p_pc = "w_bump" => SlotIdx(c_rc) # SlotIdx(p_wc))
    /\ c_pc = "r_bump" =>
          /\ c_rc + 1 <= Len(written)
          /\ Matches(c_bytes, written[c_rc + 1])

\* A write crashed inside its copy, the next write is copying into the slot it
\* left behind, and the consumer is copying another slot out.
C6_Witness ==
    /\ torn # -1
    /\ p_pc = "w_copy_tail"
    /\ SlotIdx(p_wc) = torn
    /\ c_pc = "r_copy_tail"

\* ====================================================================
\* Properties of ShmRingBuffer::new on an existing segment (RingOpenSpec)
\* ====================================================================
\* C7: no step of a construction on the existing segment changes write_cursor
\* or read_cursor, and with constructions going on the reads still return the
\* written payloads in write order, none of them twice.
C7_OpenStep == (o_pc' # o_pc) => UNCHANGED <<write_cursor, read_cursor>>

C7_InOrder ==
    /\ Len(readlog) <= Len(written)
    /\ \A i \in 1..Len(readlog) : Matches(readlog[i], written[i])

C7_OpenKeepsCursors == [][C7_OpenStep]_vars /\ [](C7_InOrder)

\* ====================================================================
\* Properties of FastGate (GateSpec: one gate; GateSharedSpec: several)
\* ====================================================================
\* The outcome of the first rule that matches, in the order the contract
\* lists them for an inactive kill switch.
FirstRule(price, qty, maxp, maxq) ==
    LET rules == << <<FLe0(price), <<FALSE, 2>> >>,
                    <<FGt(price, maxp), <<FALSE, 3>> >>,
                    <<FLe0(qty), <<FALSE, 5>> >>,
                    <<FGt(qty, maxq), <<FALSE, 4>> >>,
                    <<TRUE, <<TRUE, 0>> >> >>
        first == CHOOSE i \in 1..Len(rules) :
                    rules[i][1] /\ \A j \in 1..(i - 1) : ~rules[j][1]
    IN  rules[first][2]

Returned(g) == g_pc[g] = "idle" /\ g_ret[g] # <<>>
GateMoved(g) == g_pc'[g] # g_pc[g]

\* C8: a check that started while the byte held a nonzero value (the last
\* value written, by a gate or by an external process) returns (false, 1)
\* whatever price and qty are; one that started while it held 0 never
\* returns code 1.
C8_KillSwitchFirst ==
    \A g \in Gates : Returned(g) =>
        /\ (g_seen[g] # 0 => g_ret[g] = <<FALSE, 1>>)
        /\ (g_seen[g] = 0 => g_ret[g][2] # 1)

\* An external process has written 255, and a check of an order whose price
\* and quantity are both invalid has returned (false, 1).
C8_Witness ==
    \E g \in Gates :
        /\ Returned(g)
        /\ g_seen[g] = 255
        /\ FLe0(g_price[g])
        /\ FLe0(g_qty[g])
        /\ g_ret[g] = <<FALSE, 1>>

\* C9: with the byte 0 at its start, a check returns the outcome of the first
\* matching rule of: price <= 0 -> (false, 2); price > max_price -> (false, 3);
\* qty <= 0 -> (false, 5); qty > max_qty -> (false, 4); otherwise (true, 0).
\* The flag is true exactly when the code is 0, and no step of a check changes
\* the byte or the limits.
C9_Outcome ==
    \A g \in Gates : Returned(g) =>
        /\ (g_seen[g] = 0 =>
              g_ret[g] = FirstRule(g_price[g], g_qty[g], max_price[g], max_qty[g]))
        /\ (g_ret[g][1] <=> g_ret[g][2] = 0)

C9_Frame ==
    (\E g \in Gates : GateMoved(g)) => UNCHANGED <<kill, max_price, max_qty>>

C9_RuleOrder == [](C9_Outcome) /\ [][C9_Frame]_vars

\* With a negative max_qty, a quantity that is both <= 0 and > max_qty has
\* been rejected with code 5.
C9_Witness ==
    \E g \in Gates :
        /\ Returned(g)
        /\ g_seen[g] = 0
        /\ FLe0(g_qty[g])
        /\ FGt(g_qty[g], max_qty[g])
        /\ g_ret[g] = <<FALSE, 5>>

\* C10: the byte always holds the value of the most recent write; on every
\* gate, a check that started after a write of a nonzero value (and before a
\* later write of 0) returns (false, 1), and one that started after a write of
\* 0 is decided by price and qty alone.
C10_SharedKillSwitch ==
    /\ kill = last_write
    /\ \A g \in Gates : Returned(g) =>
          IF g_seen[g] # 0
          THEN g_ret[g] = <<FALSE, 1>>
          ELSE g_ret[g] = FirstRule(g_price[g], g_qty[g], max_price[g], max_qty[g])

\* After a set_kill_switch(true) two gates have each rejected a valid order
\* with code 1.
C10_Witness ==
    /\ kill = 1
    /\ \A g \in 1..2 :
          /\ Returned(g)
          /\ g_seen[g] = 1
          /\ g_price[g] = Num(1)
          /\ g_qty[g] = Num(1)
          /\ g_ret[g] = <<FALSE, 1>>


\* ====================================================================
\* Claims on the position tracker (specification PosSpec)
\* ====================================================================
Updated == t_op.op = "update"
Known == t_op.key \in DOMAIN t_prev
\* The record of the call's key before and after the call.
Before == IF Known THEN t_prev[t_op.key] ELSE NewState
After == positions[t_op.key]
IsBuy == t_op.side = 0
\* The fill is on the side opposite to an existing position.
Opposite ==
    /\ Updated /\ Known
    /\ (Before.net_qty > 0 /\ ~IsBuy) \/ (Before.net_qty < 0 /\ IsBuy)
\* The fill is on the side of an existing position.
SameSide ==
    /\ Updated /\ Known
    /\ (Before.net_qty > 0 /\ IsBuy) \/ (Before.net_qty < 0 /\ ~IsBuy)
Flat == Updated /\ Before.net_qty = 0

\* --------------------------------------------------------------------
\* C11: a fill of quantity q > 0 at price p against a position with
\* net_qty # 0 and average price a adds (p - a) * min(|net_qty|, q) to
\* realized_pnl when it is a sell against a long and (a - p) * min(|net_qty|, q)
\* when it is a buy against a short; a fill with q = |net_qty| leaves
\* net_qty = 0.
C11_ClosingPnl ==
    Opposite =>
        LET closed == Min(Abs(Before.net_qty), t_op.qty)
            gain == After.realized_pnl_scaled - Before.realized_pnl_scaled
        IN  /\ (Before.net_qty > 0) =>
                    gain = (t_op.price - Before.avg_price_scaled) * closed
            /\ (Before.net_qty < 0) =>
                    gain = (Before.avg_price_scaled - t_op.price) * closed
            /\ (t_op.qty = Abs(Before.net_qty)) => After.net_qty = 0
            /\ t_ret[3] = After.realized_pnl_scaled
            /\ t_ret[1] = After.net_qty

\* A short of two units is bought back in full at another price than its average.
C11_Witness ==
    /\ Opposite
    /\ Before.net_qty = 0 - 2 /\ t_op.qty = 2
    /\ t_op.price # Before.avg_price_scaled
    /\ After.net_qty = 0
    /\ After.realized_pnl_scaled # Before.realized_pnl_scaled

\* --------------------------------------------------------------------
\* C12: an opposite-side fill with q > |net_qty| leaves the residual
\* q - |net_qty| with the fill's sign, sets avg_price to the fill price and
\* realizes P&L on the |net_qty| units closed only; one with q < |net_qty|
\* keeps the sign of net_qty and leaves avg_price unchanged.
C12_FlipPartial ==
    Opposite =>
        LET held == Abs(Before.net_qty)
            fill_sign == IF IsBuy THEN 1 ELSE 0 - 1
            gain == After.realized_pnl_scaled - Before.realized_pnl_scaled
            per_unit == IF IsBuy THEN Before.avg_price_scaled - t_op.price
                        ELSE t_op.price - Before.avg_price_scaled
        IN  /\ (t_op.qty > held) =>
                    /\ After.net_qty = fill_sign * (t_op.qty - held)
                    /\ After.avg_price_scaled = t_op.price
                    /\ gain = per_unit * held
            /\ (t_op.qty < held) =>
                    /\ Sign(After.net_qty) = Sign(Before.net_qty)
                    /\ After.avg_price_scaled = Before.avg_price_scaled
            /\ t_ret[2] = After.avg_price_scaled

\* A long of one unit is sold twice over at another price than its average.
C12_Witness ==
    /\ Opposite
    /\ Before.net_qty = 1 /\ t_op.qty = 2
    /\ t_op.price # Before.avg_price_scaled
    /\ After.net_qty = 0 - 1
    /\ After.avg_price_scaled = t_op.price

\* --------------------------------------------------------------------
\* C13: the first fill on a flat position sets avg_price to the fill price; a
\* fill on the side of an existing position sets avg_price to
\* (net_qty*avg_price + signed_qty*price) / (net_qty + signed_qty), the
\* quotient rounded toward zero, and adds signed_qty to net_qty; the new
\* avg_price lies between the previous avg_price and the fill price
\* (inclusive), for long and for short positions.
SignedQty == IF IsBuy THEN t_op.qty ELSE 0 - t_op.qty
TotalVal == Before.net_qty * Before.avg_price_scaled + SignedQty * t_op.price
\* What the division leaves over: total_val - avg_price * net_qty.
Remainder == TotalVal - After.avg_price_scaled * After.net_qty

C13_WeightedAverage ==
    /\ Flat => /\ After.avg_price_scaled = t_op.price
               /\ After.net_qty = SignedQty
    /\ SameSide =>
        /\ After.net_qty = Before.net_qty + SignedQty
        /\ Abs(Remainder) < Abs(After.net_qty)
        /\ Remainder # 0 => Sign(Remainder) = Sign(TotalVal)
        /\ After.avg_price_scaled >= Min(Before.avg_price_scaled, t_op.price)
        /\ After.avg_price_scaled <= 0 - Min(0 - Before.avg_price_scaled, 0 - t_op.price)
    /\ (Flat \/ SameSide) => t_ret[2] = After.avg_price_scaled

\* A short position is increased and the quotient, a negative number, is not
\* an integer: rounding toward zero and rounding down differ.
C13_Witness ==
    /\ SameSide
    /\ Before.net_qty < 0
    /\ Remainder # 0
    /\ TotalVal > 0

\* --------------------------------------------------------------------
\* C14: an update that opens or increases exposure (the position is flat, or
\* has the sign of the fill) leaves realized_pnl as it was, whatever the fill
\* price; realized_pnl is changed by closing fills only.
C14_PnlOnlyOnClose ==
    /\ (Flat \/ SameSide) =>
            /\ After.realized_pnl_scaled = Before.realized_pnl_scaled
            /\ t_ret[3] = Before.realized_pnl_scaled
    /\ (Updated /\ After.realized_pnl_scaled # Before.realized_pnl_scaled) => Opposite

\* A position is increased at another price than its average.
C14_Witness ==
    /\ SameSide
    /\ t_op.price # Before.avg_price_scaled
    /\ Abs(After.net_qty) > Abs(Before.net_qty)
    /\ After.realized_pnl_scaled = Before.realized_pnl_scaled

\* --------------------------------------------------------------------
\* C15 (as stated): after each update the fees of the key equal the previous
\* fees plus fee + tax of the fill, whatever the side and the kind of fill,
\* and over any sequence of updates they never decrease.
C15_FeesNeverDecrease ==
    Updated =>
        /\ After.fees_scaled = Before.fees_scaled + t_op.fee + t_op.tax
        /\ After.fees_scaled >= Before.fees_scaled

\* C15 (amended): after each update the fees of the key equal the previous
\* fees plus fee + tax of the fill, whatever the side and the kind of fill;
\* they do not decrease in an update with fee + tax >= 0, and they decrease
\* in one with fee + tax < 0.
C15_FeesAccumulate ==
    Updated =>
        /\ After.fees_scaled = Before.fees_scaled + t_op.fee + t_op.tax
        /\ t_ret[4] = After.fees_scaled
        /\ (t_op.fee + t_op.tax >= 0) => After.fees_scaled >= Before.fees_scaled
        /\ (t_op.fee + t_op.tax < 0) => After.fees_scaled < Before.fees_scaled

\* A closing fill with a fee and a tax on a position that has paid fees before.
C15_Witness ==
    /\ Opposite
    /\ Before.fees_scaled = 3
    /\ t_op.fee = 2 /\ t_op.tax = 1
    /\ After.fees_scaled = 6

\* --------------------------------------------------------------------
\* C16: get(key) for a key that has no record (never updated, or reset)
\* returns (0, 0, 0, 0) and creates no record, so len is unchanged; no call
\* of get changes a stored position.
C16_GetIsPure ==
    (t_op.op = "get") =>
        /\ positions = t_prev
        /\ TrackerLen(positions) = TrackerLen(t_prev)
        /\ ~Known => /\ t_ret = <<0, 0, 0, 0>>
                     /\ t_op.key \notin DOMAIN positions
        /\ Known => t_ret = AsTuple(t_prev[t_op.key])

\* get of a key without a record while the other key has one.
C16_Witness ==
    /\ t_op.op = "get"
    /\ t_op.key \notin DOMAIN t_prev
    /\ TrackerLen(positions) = 1
    /\ t_ret = <<0, 0, 0, 0>>

\* --------------------------------------------------------------------
\* C17: reset(key) deletes the record of the key: afterwards get(key) is
\* (0, 0, 0, 0) and len is one less; the next update of the key returns what
\* the same fill returns as the first fill on a fresh tracker (net_qty the
\* signed quantity, avg_price the fill price, realized_pnl 0, fees fee + tax);
\* reset of a key without a record changes nothing.
C17_AfterReset ==
    (t_op.op = "reset") =>
        /\ t_op.key \notin DOMAIN positions
        /\ Lookup(positions, t_op.key) = <<0, 0, 0, 0>>
        /\ Known => /\ TrackerLen(positions) = TrackerLen(t_prev) - 1
                    /\ \A k \in DOMAIN t_prev \ {t_op.key} :
                          k \in DOMAIN positions /\ positions[k] = t_prev[k]
        /\ ~Known => positions = t_prev

C17_NextUpdate ==
    (t_op.op = "reset" /\ t_op'.op = "update" /\ t_op'.key = t_op.key) =>
        t_ret' = <<IF t_op'.side = 0 THEN t_op'.qty ELSE 0 - t_op'.qty,
                   t_op'.price, 0, t_op'.fee + t_op'.tax>>

C17_Reset == [](C17_AfterReset) /\ [][C17_NextUpdate]_vars

\* The record of a key with an open position and paid fees is deleted.
C17_Witness ==
    /\ t_op.op = "reset"
    /\ Known
    /\ t_prev[t_op.key].net_qty # 0
    /\ t_prev[t_op.key].fees_scaled # 0
    /\ t_fills < MaxFills
    /\ TrackerLen(positions) = TrackerLen(t_prev) - 1

\* --------------------------------------------------------------------
\* C21: update, get and reset on one key never change the tuple stored for
\* another key, and the tuple of a key depends only on the update and reset
\* calls made with that key: a second tracker that gets the calls made with
\* WatchedKey and no others holds the same tuple for it.
C21_OtherKeysKept ==
    \A k \in Keys \ {t_op.key} :
        /\ k \in DOMAIN positions <=> k \in DOMAIN t_prev
        /\ k \in DOMAIN positions => positions[k] = t_prev[k]

C21_OwnCallsOnly ==
    /\ WatchedKey \in DOMAIN positions <=> WatchedKey \in DOMAIN twin
    /\ Lookup(positions, WatchedKey) = Lookup(twin, WatchedKey)

C21_KeysIndependent == C21_OtherKeysKept /\ C21_OwnCallsOnly

\* Both keys have an open position and the last call was an update of the
\* key the second tracker never sees.
C21_Witness ==
    /\ Updated /\ t_op.key # WatchedKey
    /\ DOMAIN positions = Keys /\ DOMAIN twin = {WatchedKey}
    /\ positions[WatchedKey].net_qty # 0
    /\ positions[t_op.key].net_qty # 0
    /\ positions[WatchedKey] = twin[WatchedKey]

C23_NetIsSignedSum ==
    /\ DOMAIN t_net = DOMAIN positions
    /\ \A k \in DOMAIN positions : positions[k].net_qty = t_net[k]

\* A fill has just taken a position through zero to the other side.
C23_Witness ==
    /\ Opposite
    /\ t_op.qty > Abs(Before.net_qty)
    /\ After.net_qty # 0
    /\ t_net[t_op.key] = After.net_qty

\* ====================================================================
\* LimitOrderBook (lob.rs): one BTreeMap<u64, f64> per side.
\* A price is an f64; here it is NaN or the rational num/den, so that the
\* scaling to the u64 key truncates. Keys stay far below 2^53, where
\* `key as f64 / 10000.0` is exact to the ordering.
\* ====================================================================
\* Largest depth asked of top_bids / top_asks.
MaxDepth == 2

\* lob.rs:35, 55, 66  the price scale
PRICE_SCALE == 10000

LobOnly == UNCHANGED <<ringVars, gateVars, posVars, conVars, mpVars, ofiVars, flowVars, metaVars, hawkVars, sigVars>>


\* Prices NaN, -1, 0.0001, 0.00015 and 0.00029.
LobPrices ==
    {RatNaN, Rat(0 - 1, 1), Rat(1, 10000), Rat(3, 20000), Rat(29, 100000)}
\* Quantities NaN, -1, 0 and 1.
LobQtys == {NaN, Num(0 - 1), Num(0), Num(1)}

\* lob.rs:35  (price * 10000.0) as u64: the cast drops the fraction, and takes
\* NaN and every negative product to 0.
ScaledPrice(price) ==
    IF price.nan THEN 0
    ELSE LET x == TruncDiv(price.num * PRICE_SCALE, price.den)
         IN  IF x < 0 THEN 0 ELSE x

\* lob.rs:55, 66  *p as f64 / 10000.0
PriceOf(key) == Rat(key, PRICE_SCALE)

Removes_ZeroOnly(quantity) == ~quantity.nan /\ quantity.v = 0

\* lob.rs:42  quantity <= 0.0
Removes(quantity) == FLe0(quantity)

\* lob.rs:43  book.remove(&scaled_price)
MapRemove(book, key) == [k \in DOMAIN book \ {key} |-> book[k]]
\* lob.rs:45  book.insert(scaled_price, quantity)
MapInsert(book, key, quantity) ==
    [k \in DOMAIN book \cup {key} |-> IF k = key THEN quantity ELSE book[k]]

\* lob.rs:42-46  the update of one side's map
Upsert(book, key, quantity) ==
    IF Removes(quantity) THEN MapRemove(book, key)
    ELSE MapInsert(book, key, quantity)

MaxKey(S) == CHOOSE k \in S : \A j \in S : j <= k
MinKey(S) == CHOOSE k \in S : \A j \in S : k <= j

RECURSIVE Descending(_, _)
RECURSIVE Ascending(_, _)
RECURSIVE Descending_Unbounded(_, _)

Descending_Unbounded(S, n) ==
    IF S = {} THEN <<>>
    ELSE <<MaxKey(S)>> \o Descending_Unbounded(S \ {MaxKey(S)}, n)

\* lob.rs:50-53  bids.iter().rev().take(depth): the n largest keys, largest first
Descending(S, n) ==
    IF n = 0 \/ S = {} THEN <<>>
    ELSE <<MaxKey(S)>> \o Descending(S \ {MaxKey(S)}, n - 1)

\* lob.rs:62-64  asks.iter().take(depth): the n smallest keys, smallest first
Ascending(S, n) ==
    IF n = 0 \/ S = {} THEN <<>>
    ELSE <<MinKey(S)>> \o Ascending(S \ {MinKey(S)}, n - 1)

\* lob.rs:54-58, 65-69  .map(|(p, q)| PriceLevel { price, quantity }).collect()
Levels(book, keys) ==
    [i \in 1..Len(keys) |-> [price |-> PriceOf(keys[i]), quantity |-> book[keys[i]]]]

\* lob.rs:34-47  update
L_Update(is_bid, price, quantity) ==
    LET scaled_price == ScaledPrice(price)
    IN  /\ IF is_bid
           THEN bids' = Upsert(bids, scaled_price, quantity) /\ UNCHANGED asks
           ELSE asks' = Upsert(asks, scaled_price, quantity) /\ UNCHANGED bids
        /\ l_last' = [sk \in DOMAIN l_last \cup {<<is_bid, scaled_price>>} |->
                         IF sk = <<is_bid, scaled_price>> THEN quantity ELSE l_last[sk]]
        /\ l_op' = [op |-> "update", is_bid |-> is_bid, depth |-> 0]
        /\ l_ret' = <<>>
        /\ LobOnly

\* lob.rs:49-59  top_bids
L_TopBids(depth) ==
    /\ l_ret' = Levels(bids, Descending(DOMAIN bids, depth))
    /\ l_op' = [op |-> "top_bids", is_bid |-> TRUE, depth |-> depth]
    /\ UNCHANGED <<bids, asks, l_last>>
    /\ LobOnly

\* lob.rs:61-70  top_asks
L_TopAsks(depth) ==
    /\ l_ret' = Levels(asks, Ascending(DOMAIN asks, depth))
    /\ l_op' = [op |-> "top_asks", is_bid |-> FALSE, depth |-> depth]
    /\ UNCHANGED <<bids, asks, l_last>>
    /\ LobOnly

\* One book.
LobSpecInit == RingParked /\ GateParked /\ RestInit

LobNext ==
    \/ \E is_bid \in BOOLEAN, price \in LobPrices, quantity \in LobQtys :
          L_Update(is_bid, price, quantity)
    \/ \E depth \in 0..MaxDepth : L_TopBids(depth)
    \/ \E depth \in 0..MaxDepth : L_TopAsks(depth)

LobSpec == LobSpecInit /\ [][LobNext]_vars

\* ====================================================================
\* Claims on the limit order book (specification LobSpec)
\* ====================================================================
LobKeys == {ScaledPrice(p) : p \in LobPrices}
Book(is_bid) == IF is_bid THEN bids ELSE asks
\* The side and scaled price have been updated at least once.
Touched(is_bid, key) == <<is_bid, key>> \in DOMAIN l_last
\* No stored level has a quantity <= 0.
NoDeadLevel ==
    \A is_bid \in BOOLEAN : \A k \in DOMAIN Book(is_bid) : ~FLe0(Book(is_bid)[k])
\* An update of one side leaves the map of the other side as it was.
C18_OtherSide ==
    (l_op'.op = "update") =>
        IF l_op'.is_bid THEN asks' = asks ELSE bids' = bids

\* --------------------------------------------------------------------
\* C18 (as stated): a level (side, scaled price) is present exactly when the
\* most recent update for that side and scaled price had qty > 0, and its
\* quantity is the one of that update; no level with quantity <= 0 is
\* stored; an update on one side leaves the other side unchanged.
C18_AsStated ==
    /\ \A is_bid \in BOOLEAN, k \in LobKeys :
          /\ k \in DOMAIN Book(is_bid) <=>
                 (Touched(is_bid, k) /\ FGt(l_last[<<is_bid, k>>], Num(0)))
          /\ k \in DOMAIN Book(is_bid) => Book(is_bid)[k] = l_last[<<is_bid, k>>]
    /\ NoDeadLevel

C18_PresentIffPositive == [](C18_AsStated) /\ [][C18_OtherSide]_vars

\* C18 (amended): a level (side, scaled price) is present exactly when the
\* most recent update for that side and scaled price had a quantity that is
\* not <= 0, which is a quantity > 0 or NaN, and its quantity is the one of
\* that update; no level with quantity <= 0 is stored; an update on one side
\* leaves the other side unchanged.
C18_Amended ==
    /\ \A is_bid \in BOOLEAN, k \in LobKeys :
          /\ k \in DOMAIN Book(is_bid) <=>
                 (Touched(is_bid, k) /\ ~FLe0(l_last[<<is_bid, k>>]))
          /\ k \in DOMAIN Book(is_bid) => Book(is_bid)[k] = l_last[<<is_bid, k>>]
    /\ DOMAIN bids \subseteq LobKeys /\ DOMAIN asks \subseteq LobKeys
    /\ NoDeadLevel

C18_PresentIffNotRemoved == [](C18_Amended) /\ [][C18_OtherSide]_vars

\* A bid level has been removed by an update with a negative quantity while
\* another bid and an ask are present, one of them with the quantity NaN.
C18_Witness ==
    /\ l_op.op = "update" /\ l_op.is_bid
    /\ Touched(TRUE, 1) /\ l_last[<<TRUE, 1>>] = Num(0 - 1)
    /\ 1 \notin DOMAIN bids
    /\ 2 \in DOMAIN bids /\ bids[2] = Num(1)
    /\ 0 \in DOMAIN asks /\ asks[0] = NaN

\* --------------------------------------------------------------------
\* C19: top_bids(depth) returns min(depth, number of bid levels) levels of the
\* book in strictly decreasing price order, the first one the maximum-price
\* bid; top_asks(depth) returns min(depth, number of ask levels) levels in
\* strictly increasing price order, the first one the minimum-price ask;
\* depth 0 returns the empty sequence; neither call changes the book.
IsLevelOf(level, book) ==
    \E k \in DOMAIN book : level.price = PriceOf(k) /\ level.quantity = book[k]

C19_Bids ==
    (l_op.op = "top_bids") =>
        /\ Len(l_ret) = Min(l_op.depth, Cardinality(DOMAIN bids))
        /\ \A i \in 1..Len(l_ret) : IsLevelOf(l_ret[i], bids)
        /\ \A i, j \in 1..Len(l_ret) :
              i < j => RatLt(l_ret[j].price, l_ret[i].price)
        /\ Len(l_ret) > 0 =>
              \A k \in DOMAIN bids : ~RatLt(l_ret[1].price, PriceOf(k))
        /\ l_op.depth = 0 => l_ret = <<>>

C19_Asks ==
    (l_op.op = "top_asks") =>
        /\ Len(l_ret) = Min(l_op.depth, Cardinality(DOMAIN asks))
        /\ \A i \in 1..Len(l_ret) : IsLevelOf(l_ret[i], asks)
        /\ \A i, j \in 1..Len(l_ret) :
              i < j => RatLt(l_ret[i].price, l_ret[j].price)
        /\ Len(l_ret) > 0 =>
              \A k \in DOMAIN asks : ~RatLt(PriceOf(k), l_ret[1].price)
        /\ l_op.depth = 0 => l_ret = <<>>

C19_BookKept ==
    (l_op'.op \in {"top_bids", "top_asks"}) => bids' = bids /\ asks' = asks

C19_TopOfBook == [](C19_Bids /\ C19_Asks) /\ [][C19_BookKept]_vars

\* top_bids(2) on a book with three bid levels returns the two best ones.
C19_Witness ==
    /\ l_op.op = "top_bids" /\ l_op.depth = 2
    /\ Cardinality(DOMAIN bids) = 3
    /\ Len(l_ret) = 2
    /\ l_ret[1].price = PriceOf(2) /\ l_ret[2].price = PriceOf(1)
    /\ asks # <<>>

\* ====================================================================
\* Construction on /dev/shm: ShmRingBuffer::new (ipc.rs:21-60) and
\* FastGate::new (risk.rs:17-39). A file is its length and its first byte,
\* which is the kill-switch byte and the low byte of write_cursor.
\* ====================================================================
\* ipc.rs:5
HEADER_SIZE == 128

\* ipc.rs:24-28, risk.rs:18-22  the paths the names resolve to
ShmPaths == {"/dev/shm/ring", "/dev/shm/kill"}

ConOnly == UNCHANGED <<ringVars, gateVars, posVars, lobVars, mpVars, ofiVars, flowVars, metaVars, hawkVars, sigVars>>

\* ipc.rs:22  let size = HEADER_SIZE + (capacity * SLOT_SIZE)
SegSize(cap) == HEADER_SIZE + cap * SLOT_SIZE

Exists(path) == path \in DOMAIN files

\* ipc.rs:30-34, risk.rs:24-28  OpenOptions::create(create).open(&path): a
\* missing file is an error unless create is set.
OpenFails(path, create) == ~Exists(path) /\ ~create

\* The file at path becomes f.
PutFile(path, f) ==
    [p \in DOMAIN files \cup {path} |-> IF p = path THEN f ELSE files[p]]

\* The first byte of the file at path before a constructor opens it.
ByteBefore(path) == IF Exists(path) THEN files[path].byte0 ELSE 0

\* ipc.rs:21-60  ShmRingBuffer::new
N_RingNew(name, cap, create) ==
    /\ n_op' = [kind |-> "ring", name |-> name, capacity |-> cap, create |-> create]
    /\ n_existed' = Exists(name)
    /\ n_byte' = ByteBefore(name)
    /\ n_fresh' = TRUE
    /\ n_check' = <<>>
    /\ IF OpenFails(name, create)
       THEN /\ n_ret' = "Err"
            /\ UNCHANGED files
       ELSE /\ n_ret' = "Ok"
            /\ files' = IF create
                        THEN PutFile(name, [len |-> SegSize(cap), byte0 |-> 0])
                        ELSE files
    /\ ConOnly

N_GateNew_Zeroes(name) ==
    /\ n_op' = [kind |-> "gate", name |-> name, capacity |-> 0, create |-> FALSE]
    /\ n_existed' = Exists(name)
    /\ n_byte' = ByteBefore(name)
    /\ n_fresh' = TRUE
    /\ n_check' = <<>>
    /\ n_ret' = "Ok"
    /\ files' = PutFile(name, [len |-> 1, byte0 |-> 0])
    /\ ConOnly

\* risk.rs:17-39  FastGate::new: create(true), then set_len(1)
N_GateNew(name) ==
    /\ n_op' = [kind |-> "gate", name |-> name, capacity |-> 0, create |-> FALSE]
    /\ n_existed' = Exists(name)
    /\ n_byte' = ByteBefore(name)
    /\ n_fresh' = TRUE
    /\ n_check' = <<>>
    /\ IF OpenFails(name, TRUE)
       THEN /\ n_ret' = "Err"
            /\ UNCHANGED files
       ELSE /\ n_ret' = "Ok"
            /\ files' = PutFile(name, [len |-> 1,
                                       byte0 |-> IF Exists(name) THEN files[name].byte0
                                                 ELSE 0])
    /\ ConOnly

\* A process stores b in the first byte of an existing file: set_kill_switch
\* (risk.rs:64-69), a monitoring process, or a producer's cursor store.
N_Store(name, b) ==
    /\ Exists(name)
    /\ files' = PutFile(name, [files[name] EXCEPT !.byte0 = b])
    /\ n_fresh' = FALSE
    /\ UNCHANGED <<n_op, n_ret, n_existed, n_byte, n_check>>
    /\ ConOnly

\* risk.rs:41-65  the first check of the gate that the last FastGate::new
\* returned, built with max_price = max_qty = 1: it reads the file's byte.
N_GateCheck(price, qty) ==
    /\ n_op.kind = "gate" /\ n_ret = "Ok" /\ n_check = <<>>
    /\ n_check' = Check(files[n_op.name].byte0, price, qty, Num(1), Num(1))
    /\ UNCHANGED <<files, n_op, n_ret, n_existed, n_byte, n_fresh>>
    /\ ConOnly

ConSpecInit == RingParked /\ GateParked /\ RestInit

ConNext ==
    \/ \E name \in ShmPaths, cap \in 1..MaxCapacity, create \in BOOLEAN :
          N_RingNew(name, cap, create)
    \/ \E name \in ShmPaths : N_GateNew(name)
    \/ \E name \in ShmPaths, b \in {0, 1} : N_Store(name, b)
    \/ \E order \in ProbeOrders : N_GateCheck(order[1], order[2])

ConSpec == ConSpecInit /\ [][ConNext]_vars

\* --------------------------------------------------------------------
\* C20: ShmRingBuffer::new with create = false on a segment that does not
\* exist, and FastGate::new on a kill-switch segment that does not exist,
\* return a construction error and leave the segment missing.
Constructed == n_ret # "none"
C20_Ring ==
    (Constructed /\ n_op.kind = "ring" /\ ~n_op.create /\ ~n_existed) =>
        n_ret = "Err" /\ ~Exists(n_op.name)
C20_Gate ==
    (Constructed /\ n_op.kind = "gate" /\ ~n_existed) =>
        n_ret = "Err" /\ ~Exists(n_op.name)

C20_MissingIsError == C20_Ring /\ C20_Gate

\* ====================================================================
\* Further claims on the ring buffer (specification Spec)
\* ====================================================================
\* The slot as the i-th successful write leaves it: the first
\* min(len, SLOT_SIZE) bytes are the payload's, the others are those of the
\* message written capacity writes earlier, or zero when there is none.
RECURSIVE Occupant(_)
Occupant(i) ==
    LET prev == IF i > capacity THEN Occupant(i - capacity) ELSE ZeroSlot
        n == Min(Len(written[i]), SLOT_SIZE)
    IN  [j \in 1..SLOT_SIZE |-> IF j <= n THEN written[i][j] ELSE prev[j]]

\* --------------------------------------------------------------------
\* C24: the read that consumes a payload of length L returns a slot of
\* SLOT_SIZE bytes whose first min(L, SLOT_SIZE) bytes are the payload's (a
\* write with L > SLOT_SIZE returns true and stores the first SLOT_SIZE
\* bytes); write does not clear the rest, so while no write was cut short by
\* a crash the bytes L..63 are those of the previous occupant of the slot
\* index, and zero if there was none.
C24_RoundTrip ==
    \A i \in 1..Len(readlog) :
        /\ Len(readlog[i]) = SLOT_SIZE
        /\ \A j \in 1..SLOT_SIZE :
              j <= Len(written[i]) => readlog[i][j] = written[i][j]
        /\ crashes = 0 => readlog[i] = Occupant(i)

\* A one-byte payload was read from a slot that held a longer payload before:
\* byte 0 is the new payload's, the others are the old one's.
C24_Witness ==
    /\ crashes = 0
    /\ \E i \in 1..Len(readlog) :
          /\ i > capacity
          /\ Len(written[i]) = 1
          /\ Len(written[i - capacity]) > SLOT_SIZE
          /\ readlog[i][1] = written[i][1]
          /\ readlog[i][2] = written[i - capacity][2]
          /\ readlog[i][2] # 0

\* ====================================================================
\* ShmRingBuffer with several writers and readers on one segment
\* (ipc.rs:62-112). Every process runs the same code as the producer and the
\* consumer above; a call is split at its volatile loads, its slot copy and
\* its volatile store.
\* ====================================================================
\* Bound on the number of calls of write and read started in one run.
MaxCalls == 4

\* The ways to attach processes: one or two writers, one or two readers.
WriterSets == {{"w1"}, {"w1", "w2"}}
ReaderSets == {{"r1"}, {"r1", "r2"}}

\* What these processes leave alone: the locals of the producer and the
\* consumer above, and the other components.
MpOnly ==
    UNCHANGED <<capacity, p_pc, p_wc, p_rc, p_data, p_ret,
                c_pc, c_wc, c_rc, c_bytes, c_ret, o_pc, o_create, opens,
                written, readlog, crashes, torn, p_start_rc,
                gateVars, posVars, lobVars, conVars, ofiVars, flowVars, sigVars, hawkVars, metaVars,
                m_writers, m_readers>>

\* ipc.rs:62-64  write is called; let write_cursor = read_volatile(header_ptr.add(0))
M_WLoadWrite(p, data) ==
    /\ p \in m_writers /\ m_pc[p] = "idle"
    /\ m_calls < MaxCalls
    /\ m_calls' = m_calls + 1
    /\ m_pc' = [m_pc EXCEPT ![p] = "w_load_read"]
    /\ m_wc' = [m_wc EXCEPT ![p] = write_cursor]
    /\ m_data' = [m_data EXCEPT ![p] = data]
    /\ UNCHANGED <<write_cursor, read_cursor, slots, m_rc, m_true, m_some>>
    /\ MpOnly

\* ipc.rs:65  let read_cursor = read_volatile(header_ptr.add(1))
M_WLoadRead(p) ==
    /\ p \in m_writers /\ m_pc[p] = "w_load_read"
    /\ m_pc' = [m_pc EXCEPT ![p] = "w_check"]
    /\ m_rc' = [m_rc EXCEPT ![p] = read_cursor]
    /\ UNCHANGED <<write_cursor, read_cursor, slots, m_wc, m_data, m_calls,
                   m_true, m_some>>
    /\ MpOnly

\* ipc.rs:67-69  the buffer is full: return Ok(false)
M_WFull(p) ==
    /\ p \in m_writers /\ m_pc[p] = "w_check"
    /\ Full(m_wc[p], m_rc[p])
    /\ m_pc' = [m_pc EXCEPT ![p] = "idle"]
    /\ m_wc' = [m_wc EXCEPT ![p] = 0]
    /\ m_rc' = [m_rc EXCEPT ![p] = 0]
    /\ m_data' = [m_data EXCEPT ![p] = <<>>]
    /\ UNCHANGED <<write_cursor, read_cursor, slots, m_calls, m_true, m_some>>
    /\ MpOnly

\* ipc.rs:71-78  copy_nonoverlapping(data, slot write_cursor % capacity, len)
M_WCopy(p) ==
    /\ p \in m_writers /\ m_pc[p] = "w_check"
    /\ ~Full(m_wc[p], m_rc[p])
    /\ m_pc' = [m_pc EXCEPT ![p] = "w_bump"]
    /\ slots' = [slots EXCEPT ![SlotIdx(m_wc[p])] =
                     CopyBytes(@, m_data[p], 1, CopyLen(m_data[p]))]
    /\ UNCHANGED <<write_cursor, read_cursor, m_wc, m_rc, m_data, m_calls,
                   m_true, m_some>>
    /\ MpOnly

M_WBump_Twice(p) ==
    /\ p \in m_writers /\ m_pc[p] = "w_bump"
    /\ m_pc' = [m_pc EXCEPT ![p] = "idle"]
    /\ write_cursor' = write_cursor + 2
    /\ m_true' = Append(m_true, m_data[p])
    /\ m_wc' = [m_wc EXCEPT ![p] = 0]
    /\ m_rc' = [m_rc EXCEPT ![p] = 0]
    /\ m_data' = [m_data EXCEPT ![p] = <<>>]
    /\ UNCHANGED <<read_cursor, slots, m_calls, m_some>>
    /\ MpOnly

\* ipc.rs:81-83  write_volatile(header_ptr.add(0), write_cursor + 1); Ok(true)
M_WBump(p) ==
    /\ p \in m_writers /\ m_pc[p] = "w_bump"
    /\ m_pc' = [m_pc EXCEPT ![p] = "idle"]
    /\ write_cursor' = m_wc[p] + 1
    /\ m_true' = Append(m_true, m_data[p])
    /\ m_wc' = [m_wc EXCEPT ![p] = 0]
    /\ m_rc' = [m_rc EXCEPT ![p] = 0]
    /\ m_data' = [m_data EXCEPT ![p] = <<>>]
    /\ UNCHANGED <<read_cursor, slots, m_calls, m_some>>
    /\ MpOnly

\* ipc.rs:86-91  read is called; let write_cursor = read_volatile(header_ptr.add(0))
M_RLoadWrite(c) ==
    /\ c \in m_readers /\ m_pc[c] = "idle"
    /\ m_calls < MaxCalls
    /\ m_calls' = m_calls + 1
    /\ m_pc' = [m_pc EXCEPT ![c] = "r_load_read"]
    /\ m_wc' = [m_wc EXCEPT ![c] = write_cursor]
    /\ UNCHANGED <<write_cursor, read_cursor, slots, m_rc, m_data, m_true, m_some>>
    /\ MpOnly

\* ipc.rs:92  let read_cursor = read_volatile(header_ptr.add(1))
M_RLoadRead(c) ==
    /\ c \in m_readers /\ m_pc[c] = "r_load_read"
    /\ m_pc' = [m_pc EXCEPT ![c] = "r_check"]
    /\ m_rc' = [m_rc EXCEPT ![c] = read_cursor]
    /\ UNCHANGED <<write_cursor, read_cursor, slots, m_wc, m_data, m_calls,
                   m_true, m_some>>
    /\ MpOnly

\* ipc.rs:94-96  the buffer is empty: return Ok(None)
M_REmpty(c) ==
    /\ c \in m_readers /\ m_pc[c] = "r_check"
    /\ Empty(m_wc[c], m_rc[c])
    /\ m_pc' = [m_pc EXCEPT ![c] = "idle"]
    /\ m_wc' = [m_wc EXCEPT ![c] = 0]
    /\ m_rc' = [m_rc EXCEPT ![c] = 0]
    /\ UNCHANGED <<write_cursor, read_cursor, slots, m_data, m_calls, m_true, m_some>>
    /\ MpOnly

\* ipc.rs:98-105  copy the slot read_cursor % capacity out
M_RCopy(c) ==
    /\ c \in m_readers /\ m_pc[c] = "r_check"
    /\ ~Empty(m_wc[c], m_rc[c])
    /\ m_pc' = [m_pc EXCEPT ![c] = "r_bump"]
    /\ m_data' = [m_data EXCEPT ![c] = slots[SlotIdx(m_rc[c])]]
    /\ UNCHANGED <<write_cursor, read_cursor, slots, m_wc, m_rc, m_calls,
                   m_true, m_some>>
    /\ MpOnly

\* ipc.rs:108-110  write_volatile(header_ptr.add(1), read_cursor + 1); Ok(Some(..))
M_RBump(c) ==
    /\ c \in m_readers /\ m_pc[c] = "r_bump"
    /\ m_pc' = [m_pc EXCEPT ![c] = "idle"]
    /\ read_cursor' = m_rc[c] + 1
    /\ m_some' = Append(m_some, m_data[c])
    /\ m_wc' = [m_wc EXCEPT ![c] = 0]
    /\ m_rc' = [m_rc EXCEPT ![c] = 0]
    /\ m_data' = [m_data EXCEPT ![c] = <<>>]
    /\ UNCHANGED <<write_cursor, slots, m_calls, m_true>>
    /\ MpOnly

\* A new segment with its writers and readers attached, no call running.
MpAttached ==
    /\ m_writers \in WriterSets /\ m_readers \in ReaderSets
    /\ m_pc = [p \in m_writers \cup m_readers |-> "idle"]
    /\ m_wc = [p \in m_writers \cup m_readers |-> 0]
    /\ m_rc = [p \in m_writers \cup m_readers |-> 0]
    /\ m_data = [p \in m_writers \cup m_readers |-> <<>>]
    /\ m_calls = 0 /\ m_true = <<>> /\ m_some = <<>>

MpSpecInit ==
    RingInit /\ GateParked /\ PosInit /\ LobInit /\ ConInit /\ MpAttached /\ SigInit /\ HawkInit /\ MetaInit /\ OfiInit /\ FlowInit

MpNext ==
    \/ \E p \in m_writers, data \in Payloads : M_WLoadWrite(p, data)
    \/ \E p \in m_writers : M_WLoadRead(p)
    \/ \E p \in m_writers : M_WFull(p)
    \/ \E p \in m_writers : M_WCopy(p)
    \/ \E p \in m_writers : M_WBump(p)
    \/ \E c \in m_readers : M_RLoadWrite(c)
    \/ \E c \in m_readers : M_RLoadRead(c)
    \/ \E c \in m_readers : M_REmpty(c)
    \/ \E c \in m_readers : M_RCopy(c)
    \/ \E c \in m_readers : M_RBump(c)

MpSpec == MpSpecInit /\ [][MpNext]_vars

\* --------------------------------------------------------------------
\* Claims on several writers and readers (specification MpSpec)
\* --------------------------------------------------------------------
OneWriterOneReader == Cardinality(m_writers) = 1 /\ Cardinality(m_readers) = 1

\* Claim C25: with exactly one producer and one consumer on the segment, every
\* write that returned true advanced write_cursor by one of its own and every
\* read that returned a slot advanced read_cursor by one of its own, so no
\* payload is lost and no slot is handed out twice: the k-th slot read starts
\* with the k-th payload written. (With two producers or two consumers the
\* lost write and the double read are reachable: C25_Witness.)
C25_SingleSafe ==
    OneWriterOneReader =>
        /\ Len(m_true) = write_cursor
        /\ Len(m_some) = read_cursor
        /\ \A k \in 1..Len(m_some) :
               \A j \in 1..CopyLen(m_true[k]) : m_some[k][j] = m_true[k][j]

\* Two writes have returned true for different payloads while write_cursor is
\* 1, and two reads have returned the same slot while read_cursor is 1.
C25_Witness ==
    /\ Cardinality(m_writers) = 2 /\ Cardinality(m_readers) = 2
    /\ Len(m_true) = 2 /\ write_cursor = 1 /\ m_true[1] # m_true[2]
    /\ Len(m_some) = 2 /\ read_cursor = 1 /\ m_some[1] = m_some[2]
    /\ \A p \in m_writers \cup m_readers : m_pc[p] = "idle"

\* ====================================================================
\* Further claims on construction (specification ConSpec)
\* ====================================================================
\* ipc.rs:71-72, 98-99  the slot of a cursor starts at byte
\* HEADER_SIZE + (cursor % capacity) * SLOT_SIZE of the mapping, capacity being
\* the handle's constructor argument (ipc.rs:55).
SlotOffset(cursor, cap) == HEADER_SIZE + (cursor % cap) * SLOT_SIZE

\* ipc.rs:40  MmapMut::map_mut(&file) maps the file's length as it is after
\* the set_len of ipc.rs:36-38, if any.
MappedLen == files[n_op.name].len

\* Claim C26: for every handle that ShmRingBuffer::new returned, the 64 bytes of
\* the slot of every cursor value lie inside the mapped segment.
C26_SlotsInsideSegment ==
    (n_ret = "Ok" /\ n_op.kind = "ring") =>
        \A cursor \in 0..MaxWrites :
            SlotOffset(cursor, n_op.capacity) + SLOT_SIZE <= MappedLen

\* Claim C27: FastGate::new on a kill-switch file that exists leaves its byte
\* as it was, so the first check of the new gate returns (false, 1) when the
\* switch was active before the construction; on a file it creates the byte
\* is 0. (Stated for as long as no process stores into a file after the
\* construction.)
C27_GateKeepsByte ==
    (n_op.kind = "gate" /\ n_ret = "Ok" /\ n_fresh) =>
        /\ n_existed => files[n_op.name].byte0 = n_byte
        /\ ~n_existed => files[n_op.name].byte0 = 0
        /\ (n_existed /\ n_byte > 0 /\ n_check # <<>>) => n_check = <<FALSE, 1>>
        /\ (~n_existed /\ n_check # <<>>) => n_check[2] # 1

\* A gate was built on an existing file whose byte was 1, and its first check
\* has returned (false, 1).
C27_Witness ==
    /\ n_op.kind = "gate" /\ n_ret = "Ok" /\ n_fresh
    /\ n_existed /\ n_byte = 1
    /\ n_check = <<FALSE, 1>>

\* ====================================================================
\* Order-flow imbalance: AlphaOFI (alpha_ofi.rs), LobFeatureKernelV1
\* (feature.rs), RLStrategy.on_depth (rl.rs), all fed from one top-of-book
\* series. Prices and quantities are integers (integer-valued f64 in AlphaOFI
\* and RLStrategy, i64 in the kernel).
\* ====================================================================
\* Bound on the length of the series.
MaxObs == 2

TopPrices == {1, 2}
TopQtys == {0 - 1, 2}
Observations ==
    [bid_p : TopPrices, ask_p : TopPrices, bid_v : TopQtys, ask_v : TopQtys]

OfiOnly == UNCHANGED <<ringVars, gateVars, posVars, lobVars, conVars, mpVars, flowVars, metaVars, hawkVars, sigVars>>

\* A new top-of-book observation arrives.
Arrive(obs) ==
    /\ Len(series) < MaxObs
    /\ series' = Append(series, obs)
    /\ UNCHANGED <<kern, rl, a_out, k_pos, k_out, r_pos, r_out, a_in,
                   k_fresh, k_fresh_out, k_was_reset>>
    /\ OfiOnly

A_BidFlow_Swapped(s, t) ==
    IF s[t].bid_p > s[t - 1].bid_p THEN 0 - s[t - 1].bid_v
    ELSE IF s[t].bid_p < s[t - 1].bid_p THEN s[t].bid_v
    ELSE s[t].bid_v - s[t - 1].bid_v

\* alpha_ofi.rs:47-53  b_flow
A_BidFlow(s, t) ==
    IF s[t].bid_p > s[t - 1].bid_p THEN s[t].bid_v
    ELSE IF s[t].bid_p < s[t - 1].bid_p THEN 0 - s[t - 1].bid_v
    ELSE s[t].bid_v - s[t - 1].bid_v

\* alpha_ofi.rs:56-62  a_flow
A_AskFlow(s, t) ==
    IF s[t].ask_p < s[t - 1].ask_p THEN s[t].ask_v
    ELSE IF s[t].ask_p > s[t - 1].ask_p THEN 0 - s[t - 1].ask_v
    ELSE s[t].ask_v - s[t - 1].ask_v

\* alpha_ofi.rs:43-65  ofi = zeros(n); for t in 1..n { ofi[t] = a_flow - b_flow }
\* (index t of the code is t + 1 here; the two flows are kept beside the value)
Compute(s) ==
    [t \in 1..Len(s) |->
        IF t = 1 THEN [b_flow |-> 0, a_flow |-> 0, ofi |-> 0]
        ELSE [b_flow |-> A_BidFlow(s, t), a_flow |-> A_AskFlow(s, t),
              ofi |-> A_AskFlow(s, t) - A_BidFlow(s, t)]]

\* alpha_ofi.rs:21-69  AlphaOFI.compute on the series received so far
A_Compute ==
    /\ a_in' = series
    /\ a_out' = Compute(series)
    /\ UNCHANGED <<series, kern, rl, k_pos, k_out, r_pos, r_out,
                   k_fresh, k_fresh_out, k_was_reset>>
    /\ OfiOnly

\* feature.rs:59-60  l1_bid_qty.max(0), l1_ask_qty.max(0)
ClampQty(q) == IF q > 0 THEN q ELSE 0

\* feature.rs:96-102  b_flow
K_BidFlow(st, best_bid, l1_bid_qty) ==
    IF best_bid > st.prev_best_bid THEN l1_bid_qty
    ELSE IF best_bid = st.prev_best_bid THEN l1_bid_qty - st.prev_l1_bid_qty
    ELSE 0 - st.prev_l1_bid_qty

\* feature.rs:104-110  a_flow
K_AskFlow(st, best_ask, l1_ask_qty) ==
    IF best_ask > st.prev_best_ask THEN 0 - st.prev_l1_ask_qty
    ELSE IF best_ask = st.prev_best_ask THEN l1_ask_qty - st.prev_l1_ask_qty
    ELSE l1_ask_qty

\* feature.rs:155-160  py_round_i64 of the fraction num / den (den > 0):
\* round to nearest, ties to even.
RoundTiesEven(num, den) ==
    LET q == num \div den
        r == num - q * den
    IN  IF 2 * r < den THEN q
        ELSE IF 2 * r > den THEN q + 1
        ELSE IF q % 2 = 0 THEN q ELSE q + 1

\* feature.rs:114-119  (1.0 - alpha) * ema + alpha * x with alpha = 2.0 / 9.0
Ema8(ema, x) == Rat(7 * ema.num + 2 * x * ema.den, 9 * ema.den)

\* feature.rs:48-152  the kernel st after update on the observation obs, and
\* the elements of the returned vector that depend on its state. The caller
\* passes the spread of the same top of book as spread_scaled; the mid-price
\* and depth arguments feed only elements computed from the arguments alone.
KernUpdated(st, obs) ==
    LET l1_bid_qty == ClampQty(obs.bid_v)
        l1_ask_qty == ClampQty(obs.ask_v)
        spread_scaled == obs.ask_p - obs.bid_p
        l1_total == l1_bid_qty + l1_ask_qty
        l1_imbalance_ppm ==
            IF l1_total > 0
            THEN RoundTiesEven((l1_bid_qty - l1_ask_qty) * 1000000, l1_total)
            ELSE 0
        b_flow == K_BidFlow(st, obs.bid_p, l1_bid_qty)
        a_flow == K_AskFlow(st, obs.ask_p, l1_ask_qty)
        ofi_raw == b_flow - a_flow
        first == ~st.initialized
        cum == IF first THEN st.ofi_l1_cum ELSE st.ofi_l1_cum + ofi_raw
        ofi_ema == IF first THEN st.ofi_l1_ema8 ELSE Ema8(st.ofi_l1_ema8, ofi_raw)
        spread_ema == IF first THEN Rat(spread_scaled, 1)
                      ELSE Ema8(st.spread_ema8, spread_scaled)
        imb_ema == IF first THEN Rat(l1_imbalance_ppm, 1)
                   ELSE Ema8(st.imbalance_ema8_ppm, l1_imbalance_ppm)
    IN  [st |-> [prev_best_bid |-> obs.bid_p,
                 prev_best_ask |-> obs.ask_p,
                 prev_l1_bid_qty |-> l1_bid_qty,
                 prev_l1_ask_qty |-> l1_ask_qty,
                 ofi_l1_cum |-> cum,
                 ofi_l1_ema8 |-> ofi_ema,
                 spread_ema8 |-> spread_ema,
                 imbalance_ema8_ppm |-> imb_ema,
                 initialized |-> TRUE],
         out |-> [b_flow |-> IF first THEN 0 ELSE b_flow,
                  a_flow |-> IF first THEN 0 ELSE a_flow,
                  ofi |-> IF first THEN 0 ELSE ofi_raw,
                  ofi_l1_cum |-> IF first THEN 0 ELSE cum,
                  ofi_l1_ema8 |-> IF first THEN 0
                                  ELSE RoundTiesEven(ofi_ema.num, ofi_ema.den),
                  spread_ema8_scaled |-> RoundTiesEven(spread_ema.num, spread_ema.den),
                  depth_imbalance_ema8_ppm |-> RoundTiesEven(imb_ema.num, imb_ema.den)]]

\* feature.rs:48-152  LobFeatureKernelV1.update on the next observation
K_Update ==
    /\ k_pos < Len(series)
    /\ LET r == KernUpdated(kern, series[k_pos + 1])
           f == KernUpdated(k_fresh, series[k_pos + 1])
       IN  /\ kern' = r.st /\ k_out' = Append(k_out, r.out)
           /\ k_fresh' = f.st /\ k_fresh_out' = f.out
    /\ k_pos' = k_pos + 1
    /\ UNCHANGED <<series, rl, a_out, r_pos, r_out, a_in, k_was_reset>>
    /\ OfiOnly

\* feature.rs:35-45  LobFeatureKernelV1.reset
K_Reset ==
    /\ kern' = [prev_best_bid |-> 0, prev_best_ask |-> 0, prev_l1_bid_qty |-> 0,
                prev_l1_ask_qty |-> 0, ofi_l1_cum |-> 0,
                ofi_l1_ema8 |-> Rat(0, 1), spread_ema8 |-> Rat(0, 1),
                imbalance_ema8_ppm |-> Rat(0, 1), initialized |-> FALSE]
    /\ k_fresh' = KernNew
    /\ k_was_reset' = TRUE
    /\ UNCHANGED <<series, rl, a_out, k_pos, k_out, r_pos, r_out, a_in, k_fresh_out>>
    /\ OfiOnly

\* rl.rs:173-179  d_bid
R_BidFlow(best_bid, bid_qty) ==
    IF best_bid > rl.prev_best_bid THEN bid_qty
    ELSE IF best_bid < rl.prev_best_bid THEN 0 - rl.prev_bid_qty
    ELSE bid_qty - rl.prev_bid_qty

\* rl.rs:182-198  d_ask
R_AskFlow(best_ask, ask_qty) ==
    IF best_ask < rl.prev_best_ask THEN ask_qty
    ELSE IF best_ask > rl.prev_best_ask THEN 0 - rl.prev_ask_qty
    ELSE ask_qty - rl.prev_ask_qty

\* rl.rs:155-210  RLStrategy.on_depth on the next observation, as the best
\* level of each side: the OFI part (the decayed sum ofi_i, the microprice and
\* the inference that follow read this state and do not write it).
R_OnDepth ==
    /\ r_pos < Len(series)
    /\ LET obs == series[r_pos + 1]
           d_bid == R_BidFlow(obs.bid_p, obs.bid_v)
           d_ask == R_AskFlow(obs.ask_p, obs.ask_v)
       IN  /\ r_out' = Append(r_out,
                  [b_flow |-> d_bid, a_flow |-> d_ask, ofi |-> d_bid - d_ask])
           /\ rl' = [prev_best_bid |-> obs.bid_p, prev_best_ask |-> obs.ask_p,
                     prev_bid_qty |-> obs.bid_v, prev_ask_qty |-> obs.ask_v]
    /\ r_pos' = r_pos + 1
    /\ UNCHANGED <<series, kern, a_out, k_pos, k_out, a_in,
                   k_fresh, k_fresh_out, k_was_reset>>
    /\ OfiOnly

OfiSpecInit ==
    RingParked /\ GateParked /\ PosInit /\ LobInit /\ ConInit /\ MpInit /\ SigInit /\ HawkInit /\ MetaInit
    /\ OfiInit /\ FlowInit

OfiNext ==
    \/ \E obs \in Observations : Arrive(obs)
    \/ A_Compute
    \/ K_Update
    \/ R_OnDepth

OfiSpec == OfiSpecInit /\ [][OfiNext]_vars

\* --------------------------------------------------------------------
\* Claims on order-flow imbalance (specification OfiSpec)
\* --------------------------------------------------------------------
\* The contribution of one side between two consecutive observations: the
\* current quantity if the price improved, current minus previous quantity if
\* it is unchanged, minus the previous quantity if it worsened.
Contribution(improved, cur_p, prev_p, cur_q, prev_q) ==
    IF improved THEN cur_q
    ELSE IF cur_p = prev_p THEN cur_q - prev_q
    ELSE 0 - prev_q

BidRule(cur, prev, bid_v, prev_bid_v) ==
    Contribution(cur.bid_p > prev.bid_p, cur.bid_p, prev.bid_p, bid_v, prev_bid_v)
AskRule(cur, prev, ask_v, prev_ask_v) ==
    Contribution(cur.ask_p < prev.ask_p, cur.ask_p, prev.ask_p, ask_v, prev_ask_v)

\* The two flows of out[t] follow the rule on the quantities as given.
FollowsRule(out, t) ==
    /\ out[t].b_flow = BidRule(series[t], series[t - 1],
                               series[t].bid_v, series[t - 1].bid_v)
    /\ out[t].a_flow = AskRule(series[t], series[t - 1],
                               series[t].ask_v, series[t - 1].ask_v)

\* The two flows of out[t] follow the rule on the quantities raised to 0.
FollowsRuleClamped(out, t) ==
    /\ out[t].b_flow = BidRule(series[t], series[t - 1],
                               ClampQty(series[t].bid_v), ClampQty(series[t - 1].bid_v))
    /\ out[t].a_flow = AskRule(series[t], series[t - 1],
                               ClampQty(series[t].ask_v), ClampQty(series[t - 1].ask_v))

C28_Compute == \A t \in 2..Len(a_out) : FollowsRule(a_out, t)
C28_OnDepth == \A t \in 2..Len(r_out) : FollowsRule(r_out, t)

\* The statement as given: all three implementations follow the rule on the
\* quantities they are passed.
C28_RuleOnGivenQuantities ==
    /\ C28_Compute
    /\ C28_OnDepth
    /\ \A t \in 2..Len(k_out) : FollowsRule(k_out, t)

\* Claim C28: between two consecutive observations each side contributes the
\* current quantity if its price improved (bid up, ask down), current minus
\* previous quantity if the price is unchanged, and minus the previous
\* quantity if it worsened: in AlphaOFI.compute and RLStrategy.on_depth on the
\* quantities as given, in LobFeatureKernelV1.update on the quantities with
\* negative values raised to 0.
C28_PerSideContribution ==
    /\ C28_Compute
    /\ C28_OnDepth
    /\ \A t \in 2..Len(k_out) : FollowsRuleClamped(k_out, t)

\* All three implementations have processed a second observation in which the
\* bid improved and the ask worsened, with a negative quantity on the bid.
C28_Witness ==
    /\ Len(a_out) = 2 /\ Len(k_out) = 2 /\ Len(r_out) = 2
    /\ series[2].bid_p > series[1].bid_p
    /\ series[2].ask_p > series[1].ask_p
    /\ series[2].bid_v < 0
    /\ k_out[2].b_flow = 0 /\ a_out[2].b_flow < 0

\* Claim C29: AlphaOFI.compute returns 0 at index 0, the kernel's first call
\* reports ofi_l1_raw = 0, and at every later index of the same series the two
\* report the same signed value.
C29_OneConvention ==
    /\ Len(a_out) >= 1 => a_out[1].ofi = 0
    /\ Len(k_out) >= 1 => k_out[1].ofi = 0
    /\ \A t \in 2..Min(Len(a_out), Len(k_out)) : a_out[t].ofi = k_out[t].ofi

\* ====================================================================
\* MatchedFilterTradeFlow (alpha_flow.rs). Volumes and sides are
\* integer-valued f64; the returned quotient is kept as a fraction.
\* ====================================================================
\* Bounds on the two windows and on the number of calls of update.
MaxWindow == 2
MaxTrades == 3

TradeVols == {0, 1, 2}
TradeSides == {0 - 1, 1}

FlowOnly == UNCHANGED <<ringVars, gateVars, posVars, lobVars, conVars, mpVars, ofiVars, metaVars, hawkVars, sigVars>>

Warming_Never(len) == FALSE

\* alpha_flow.rs:65  if self.trade_vol_history.len() < self.slow_window
Warming(len) == len < slow_window

\* alpha_flow.rs:69-75  capacity = sum_vol_slow / slow_window; the result is
\* sum_signed_flow_fast / capacity if capacity > 1e-8, else 0. For integer
\* sums capacity > 1e-8 iff the sum is positive; with slow_window = 0 the
\* history is empty, capacity is 0/0 = NaN and the comparison is false.
Signal(sum_fast, sum_slow) ==
    IF slow_window > 0 /\ sum_slow > 0
    THEN Rat(sum_fast * slow_window, sum_slow)
    ELSE Rat(0, 1)

\* alpha_flow.rs:37-61  the fields of the instance st after update has pushed
\* the observation and removed what left the fast and the slow window.
FlowSums(st, trade_vol, trade_side) ==
    LET vols == Append(st.trade_vol_history, trade_vol)
        sides == Append(st.trade_side_history, trade_side)
        len == Len(vols)
        sum_fast == st.sum_signed_flow_fast + trade_vol * trade_side
        sum_slow == st.sum_vol_slow + trade_vol
        \* Remove old (Fast): element len - 1 - fast_window, counted from 0
        fast2 == IF len > st.fast_window
                 THEN sum_fast - vols[len - st.fast_window] * sides[len - st.fast_window]
                 ELSE sum_fast
        \* Remove old (Slow): pop_front
        pop == len > st.slow_window
    IN  [fast_window |-> st.fast_window,
         slow_window |-> st.slow_window,
         trade_vol_history |-> IF pop THEN Tail(vols) ELSE vols,
         trade_side_history |-> IF pop THEN Tail(sides) ELSE sides,
         sum_signed_flow_fast |-> fast2,
         sum_vol_slow |-> IF pop THEN sum_slow - Head(vols) ELSE sum_slow]

\* The instance held in the variables.
FlowState ==
    [fast_window |-> fast_window,
     slow_window |-> slow_window,
     trade_vol_history |-> trade_vol_history,
     trade_side_history |-> trade_side_history,
     sum_signed_flow_fast |-> sum_signed_flow_fast,
     sum_vol_slow |-> sum_vol_slow]

\* alpha_flow.rs:36-76  MatchedFilterTradeFlow.update(trade_vol, trade_side)
F_Update(trade_vol, trade_side) ==
    /\ f_calls < MaxTrades
    /\ f_calls' = f_calls + 1
    /\ f_seen' = Append(f_seen, <<trade_vol, trade_side>>)
    /\ LET st == FlowSums(FlowState, trade_vol, trade_side)
       IN  /\ trade_vol_history' = st.trade_vol_history
           /\ trade_side_history' = st.trade_side_history
           /\ sum_signed_flow_fast' = st.sum_signed_flow_fast
           /\ sum_vol_slow' = st.sum_vol_slow
           /\ f_ret' = IF Warming(Len(st.trade_vol_history)) THEN Rat(0, 1)
                       ELSE Signal(st.sum_signed_flow_fast, st.sum_vol_slow)
    /\ UNCHANGED <<fast_window, slow_window>>
    /\ FlowOnly

FlowSpecInit ==
    /\ RingParked /\ GateParked /\ PosInit /\ LobInit /\ ConInit /\ MpInit /\ SigInit /\ HawkInit /\ MetaInit /\ OfiInit
    /\ \E fast \in 0..MaxWindow, slow \in 0..MaxWindow : FlowNew(fast, slow)

FlowNext == \E trade_vol \in TradeVols, trade_side \in TradeSides :
                F_Update(trade_vol, trade_side)

FlowSpec == FlowSpecInit /\ [][FlowNext]_vars

\* --------------------------------------------------------------------
\* Claims on MatchedFilterTradeFlow (specification FlowSpec)
\* --------------------------------------------------------------------
\* Claim C30: every call of update made before slow_window observations have
\* been received returns 0, and after every update both stored histories hold
\* at most slow_window entries.
C30_WarmUpAndBound ==
    /\ (f_calls >= 1 /\ f_calls < slow_window) => f_ret.num = 0
    /\ Len(trade_vol_history) <= slow_window
    /\ Len(trade_side_history) <= slow_window

\* The call that received observation slow_window + 1 dropped the oldest
\* entry and returned a signal that is not 0.
C30_Witness ==
    /\ slow_window = 2 /\ f_calls = 3
    /\ Len(trade_vol_history) = 2
    /\ f_ret.num # 0

\* The sum over the last k elements <<vol, side>> of seq: of vol * side if
\* signed, of vol otherwise.
RECURSIVE SumLast(_, _, _)
SumLast(seq, k, signed) ==
    IF k = 0 \/ seq = <<>> THEN 0
    ELSE LET last == seq[Len(seq)]
         IN  (IF signed THEN last[1] * last[2] ELSE last[1])
             + SumLast(SubSeq(seq, 1, Len(seq) - 1), k - 1, signed)

FastSumExact ==
    sum_signed_flow_fast = SumLast(f_seen, Min(fast_window, f_calls), TRUE)
SlowSumExact ==
    sum_vol_slow = SumLast(f_seen, Min(slow_window, f_calls), FALSE)

\* Claim C31: after the n-th update, for all windows fast_window >= 1 and
\* slow_window >= 1, sum_signed_flow_fast is the sum of trade_vol * trade_side
\* over the most recent min(fast_window, n) observations and sum_vol_slow the
\* sum of trade_vol over the most recent min(slow_window, n) observations.
C31_RunningSumsExact ==
    (fast_window >= 1 /\ slow_window >= 1) => FastSumExact /\ SlowSumExact

\* ====================================================================
\* MetaAlpha (alpha_meta.rs). Volumes, sides, quantities and prices are
\* integer-valued f64. Values that are not fractions of integers are kept as
\* the expression that defines them: a return by its two prices, the
\* intensity by its decay coefficients, the regime and the signals by their
\* operands.
\* ====================================================================
\* <<bid_qty, ask_qty, mid_price>> of a tick.
Quotes == {<<1, 2, 0>>, <<2, 1, 10>>}

MetaOnly == UNCHANGED <<ringVars, gateVars, posVars, lobVars, conVars, mpVars, ofiVars, flowVars, hawkVars, sigVars>>

\* alpha_meta.rs:14-53  compute_vol_regime: 0.0 while the history is shorter
\* than long_window, else a function of the history and the two windows.
VolRegime(returns, short_window, long_window) ==
    IF Len(returns) < long_window THEN ZeroSignal
    ELSE [returns |-> returns, short |-> short_window, long |-> long_window]

MetaFlow_FastFromFront(st, trade_vol, trade_side) ==
    LET vols == Append(st.trade_vol_history, trade_vol)
        sides == Append(st.trade_side_history, trade_side)
        len == Len(vols)
        sum_fast == st.sum_signed_flow_fast + trade_vol * trade_side
        sum_slow == st.sum_vol_slow + trade_vol
        fast2 == IF len > st.fast_window THEN sum_fast - vols[1] * sides[1]
                 ELSE sum_fast
        pop == len > st.slow_window
    IN  [vols |-> IF pop THEN Tail(vols) ELSE vols,
         sides |-> IF pop THEN Tail(sides) ELSE sides,
         sum_fast |-> fast2,
         sum_slow |-> IF pop THEN sum_slow - Head(vols) ELSE sum_slow]

\* alpha_meta.rs:180-199  Trade Flow (MatchedFilter style)
MetaFlow(st, trade_vol, trade_side) ==
    LET vols == Append(st.trade_vol_history, trade_vol)
        sides == Append(st.trade_side_history, trade_side)
        len == Len(vols)
        sum_fast == st.sum_signed_flow_fast + trade_vol * trade_side
        sum_slow == st.sum_vol_slow + trade_vol
        \* Remove old (fast)
        idx == len - 1 - st.fast_window
        fast2 == IF len > st.fast_window
                 THEN sum_fast - vols[idx + 1] * sides[idx + 1]
                 ELSE sum_fast
        \* Remove old (slow)
        pop == len > st.slow_window
    IN  [vols |-> IF pop THEN Tail(vols) ELSE vols,
         sides |-> IF pop THEN Tail(sides) ELSE sides,
         sum_fast |-> fast2,
         sum_slow |-> IF pop THEN sum_slow - Head(vols) ELSE sum_slow]

\* alpha_meta.rs:150-267  the instance st after update, and what update returns
MetaUpdated(st, trade_vol, trade_side, bid_qty, ask_qty, mid_price) ==
    LET \* Update returns history (158-166)
        pushed == IF st.last_price > 0
                  THEN Append(st.returns_history,
                              [mid |-> mid_price, last |-> st.last_price])
                  ELSE st.returns_history
        returns == IF Len(pushed) > st.vol_long_window THEN Tail(pushed) ELSE pushed
        \* Hawkes intensity update (168-177)
        event_indicator == IF trade_vol > 0 THEN 1 ELSE 0
        intensity == <<st.hawkes_alpha * event_indicator>> \o st.hawkes_intensity
        \* Trade flow (179-210)
        flow == MetaFlow(st, trade_vol, trade_side)
        len == Len(flow.vols)
        trade_flow_signal ==
            IF len >= Min(st.slow_window, 10)
            THEN (IF len > 0 /\ flow.sum_slow > 0
                  THEN Rat(flow.sum_fast * len, flow.sum_slow) ELSE Rat(0, 1))
            ELSE Rat(flow.sum_fast, 1)
        \* OFI update (212-232)
        prev_bid == IF st.bid_qty_history = <<>> THEN bid_qty
                    ELSE st.bid_qty_history[Len(st.bid_qty_history)]
        prev_ask == IF st.ask_qty_history = <<>> THEN ask_qty
                    ELSE st.ask_qty_history[Len(st.ask_qty_history)]
        ofi_tick == (bid_qty - prev_bid) - (ask_qty - prev_ask)
        bids1 == Append(st.bid_qty_history, bid_qty)
        asks1 == Append(st.ask_qty_history, ask_qty)
        sum1 == Rat(st.ofi_sum.num + ofi_tick * st.ofi_sum.den, st.ofi_sum.den)
        evict == Len(bids1) > st.fast_window
        ofi_sum == IF evict THEN Rat(sum1.num * 19, sum1.den * 20) ELSE sum1
        ofi_signal == Rat(ofi_sum.num, ofi_sum.den * st.fast_window)
        \* Volatility regime, dynamic and interaction signals (234-252)
        vol_regime == VolRegime(returns, st.vol_short_window, st.vol_long_window)
        signal_dynamic ==
            [flow |-> trade_flow_signal, ofi |-> ofi_signal, regime |-> vol_regime]
        signal_interaction ==
            [hawkes |-> intensity, ofi |-> ofi_signal, flow |-> trade_flow_signal]
    IN  [st |-> [st EXCEPT
                   !.returns_history = returns,
                   !.last_price = mid_price,
                   !.hawkes_intensity = intensity,
                   !.trade_vol_history = flow.vols,
                   !.trade_side_history = flow.sides,
                   !.sum_signed_flow_fast = flow.sum_fast,
                   !.sum_vol_slow = flow.sum_slow,
                   !.bid_qty_history = IF evict THEN Tail(bids1) ELSE bids1,
                   !.ask_qty_history = IF evict THEN Tail(asks1) ELSE asks1,
                   !.ofi_sum = ofi_sum,
                   !.signal_dynamic = signal_dynamic,
                   !.signal_interaction = signal_interaction],
         \* Meta combination and confirmation boost (254-266)
         ret |-> [dynamic |-> signal_dynamic, interaction |-> signal_interaction]]

\* alpha_meta.rs:150-267  MetaAlpha.update
M_Update(trade_vol, trade_side, bid_qty, ask_qty, mid_price) ==
    /\ ma_calls < MaxTrades
    /\ ma_calls' = ma_calls + 1
    /\ LET r == MetaUpdated(meta, trade_vol, trade_side, bid_qty, ask_qty, mid_price)
           f == MetaUpdated(ma_fresh, trade_vol, trade_side, bid_qty, ask_qty, mid_price)
       IN  /\ meta' = r.st /\ ma_ret' = r.ret
           /\ ma_fresh' = f.st /\ ma_fresh_ret' = f.ret
    /\ ma_flow' = FlowSums(ma_flow, trade_vol, trade_side)
    /\ UNCHANGED ma_was_reset
    /\ MetaOnly

M_Reset_KeepsSums ==
    /\ meta' = [meta EXCEPT
                  !.trade_vol_history = <<>>,
                  !.trade_side_history = <<>>,
                  !.bid_qty_history = <<>>,
                  !.ask_qty_history = <<>>,
                  !.ofi_sum = Rat(0, 1),
                  !.hawkes_intensity = <<0 - meta.hawkes_mu>>,
                  !.returns_history = <<>>,
                  !.last_price = 0,
                  !.signal_dynamic = ZeroSignal,
                  !.signal_interaction = ZeroSignal]
    /\ ma_fresh' = MetaNew(meta.fast_window, meta.slow_window,
                           meta.vol_short_window, meta.vol_long_window)
    /\ ma_flow' = FlowFresh(meta.fast_window, meta.slow_window)
    /\ ma_was_reset' = TRUE
    /\ UNCHANGED <<ma_calls, ma_ret, ma_fresh_ret>>
    /\ MetaOnly

\* alpha_meta.rs:275-288  MetaAlpha.reset (hawkes_intensity = 0.0 is mu - mu)
M_Reset ==
    /\ meta' = [meta EXCEPT
                  !.trade_vol_history = <<>>,
                  !.trade_side_history = <<>>,
                  !.sum_signed_flow_fast = 0,
                  !.sum_vol_slow = 0,
                  !.bid_qty_history = <<>>,
                  !.ask_qty_history = <<>>,
                  !.ofi_sum = Rat(0, 1),
                  !.hawkes_intensity = <<0 - meta.hawkes_mu>>,
                  !.returns_history = <<>>,
                  !.last_price = 0,
                  !.signal_dynamic = ZeroSignal,
                  !.signal_interaction = ZeroSignal]
    /\ ma_fresh' = MetaNew(meta.fast_window, meta.slow_window,
                           meta.vol_short_window, meta.vol_long_window)
    /\ ma_flow' = FlowFresh(meta.fast_window, meta.slow_window)
    /\ ma_was_reset' = TRUE
    /\ UNCHANGED <<ma_calls, ma_ret, ma_fresh_ret>>
    /\ MetaOnly

MetaSpecInit ==
    /\ RingParked /\ GateParked /\ PosInit /\ LobInit /\ ConInit /\ MpInit /\ SigInit /\ HawkInit
    /\ OfiInit /\ FlowInit
    /\ \E fast \in 1..MaxWindow, slow \in 1..MaxWindow, vol_long \in 1..MaxWindow :
           MetaBuilt(fast, slow, 1, vol_long)

MetaNext ==
    \/ \E trade_vol \in TradeVols, trade_side \in TradeSides, q \in Quotes :
           M_Update(trade_vol, trade_side, q[1], q[2], q[3])
    \/ M_Reset

MetaSpec == MetaSpecInit /\ [][MetaNext]_vars

\* --------------------------------------------------------------------
\* Claims on MetaAlpha (specification MetaSpec)
\* --------------------------------------------------------------------
\* Claim C32: for the same fast_window and slow_window and the same sequence
\* of (trade_vol, trade_side), MetaAlpha's sum_signed_flow_fast, sum_vol_slow
\* and trade history equal MatchedFilterTradeFlow's after every update.
C32_SameTradeFlowSums ==
    /\ meta.sum_signed_flow_fast = ma_flow.sum_signed_flow_fast
    /\ meta.sum_vol_slow = ma_flow.sum_vol_slow
    /\ meta.trade_vol_history = ma_flow.trade_vol_history
    /\ meta.trade_side_history = ma_flow.trade_side_history

\* Three trades were given to both with fast_window 1 and slow_window 2: an
\* observation has left each window and the sums are not 0.
C32_Witness ==
    /\ meta.fast_window = 1 /\ meta.slow_window = 2
    /\ ma_calls = 3 /\ ~ma_was_reset
    /\ Len(ma_flow.trade_vol_history) = 2
    /\ ma_flow.trade_vol_history[1] # 0
    /\ ma_flow.sum_signed_flow_fast # 0
    /\ ma_flow.sum_vol_slow > 2

\* MetaAlpha's half of claim C33: once reset has been called, every field of
\* the instance equals that of an instance constructed with the same windows
\* at the reset and given the same calls since, and so does every return value.
C33_MetaAlpha ==
    ma_was_reset => meta = ma_fresh /\ ma_ret = ma_fresh_ret

\* reset was called after a first update and an update has been made since.
C33_MetaWitness ==
    /\ ma_was_reset /\ ma_calls = 2
    /\ meta.slow_window = 2 /\ Len(meta.trade_vol_history) = 1
    /\ meta.sum_vol_slow > 0 /\ meta.last_price > 0
    /\ ma_ret = ma_fresh_ret /\ ma_ret # ZeroSignal

\* ====================================================================
\* Resetting the factors: a MetaAlpha and a LobFeatureKernelV1 side by side,
\* each updated and reset on its own.
\* ====================================================================
\* <<trade_vol, trade_side, bid_qty, ask_qty, mid_price>> of the ticks
ResetTicks == {<<1, 1, 1, 2, 10>>, <<2, 0 - 1, 2, 1, 10>>}
\* the top-of-book observations
ResetObs ==
    {[bid_p |-> 1, ask_p |-> 2, bid_v |-> 2, ask_v |-> 2],
     [bid_p |-> 2, ask_p |-> 2, bid_v |-> 0 - 1, ask_v |-> 2],
     [bid_p |-> 1, ask_p |-> 1, bid_v |-> 2, ask_v |-> 0 - 1]}

ResetSpecInit ==
    /\ RingParked /\ GateParked /\ PosInit /\ LobInit /\ ConInit /\ MpInit /\ SigInit /\ HawkInit
    /\ OfiInit /\ FlowInit
    /\ MetaBuilt(1, 2, 1, 1)

ResetNext ==
    \/ \E t \in ResetTicks : M_Update(t[1], t[2], t[3], t[4], t[5])
    \/ M_Reset
    \/ \E obs \in ResetObs : Arrive(obs)
    \/ K_Update
    \/ K_Reset

ResetSpec == ResetSpecInit /\ [][ResetNext]_vars

\* The kernel's half of claim C33: once reset has been called, every field of
\* the kernel equals that of a kernel constructed at the reset and given the
\* same calls since, and so do the state-dependent elements it returns.
C33_Kernel ==
    k_was_reset =>
        /\ kern = k_fresh
        /\ k_out # <<>> => k_out[Len(k_out)] = k_fresh_out

\* Claim C33: after MetaAlpha.reset() and after LobFeatureKernelV1.reset()
\* every state field equals that of a newly constructed instance with the same
\* configuration, and for every subsequent sequence of inputs the instance
\* returns what a fresh one returns.
C33_ResetIsFresh == C33_MetaAlpha /\ C33_Kernel

\* Each of the two was reset after its first update and has been updated once
\* since.
C33_Witness ==
    /\ C33_MetaWitness
    /\ k_was_reset /\ k_pos = 2 /\ kern.initialized
    /\ kern.spread_ema8.den = 1 /\ kern.spread_ema8.num # 0
    /\ k_out[2].ofi = 0 /\ k_out[2].spread_ema8_scaled # 0

\* ====================================================================
\* HawkesTracker (strategy.rs)
\* ====================================================================
\* Bound on the number of calls of update.
MaxHawkes == 3

\* Timestamps in nanoseconds (i64) and the values of alpha.
Timestamps == {0 - 1, 0, 1, 2}
HawkesAlphas == {0, 1}

HawkOnly == UNCHANGED <<ringVars, gateVars, posVars, lobVars, conVars, mpVars, ofiVars, flowVars, metaVars, sigVars>>

Decayed_Always(intensity, ticks) ==
    [k \in 1..Len(intensity) |-> <<intensity[k][1], intensity[k][2] + ticks>>]

\* strategy.rs:26-32  dt = (current_ts - last_ts) as f64 / 1e9; if dt > 0.0
\* { intensity = mu + (intensity - mu) * exp(-beta * dt) }
Decayed(intensity, ticks) ==
    IF ticks > 0
    THEN [k \in 1..Len(intensity) |-> <<intensity[k][1], intensity[k][2] + ticks>>]
    ELSE intensity

\* strategy.rs:35-37  if is_event { intensity += alpha }
Jumped(intensity, alpha, is_event) ==
    IF is_event THEN Append(intensity, <<alpha, 0>>) ELSE intensity

\* strategy.rs:24-41  HawkesTracker.update(current_ts, is_event)
H_Update(current_ts, is_event) ==
    /\ h_calls < MaxHawkes
    /\ h_calls' = h_calls + 1
    /\ h_op' = [current_ts |-> current_ts, is_event |-> is_event]
    /\ h_prev' = hawk
    /\ LET intensity == Jumped(Decayed(hawk.intensity, current_ts - hawk.last_ts),
                               hawk.alpha, is_event)
       IN  /\ hawk' = [hawk EXCEPT !.intensity = intensity, !.last_ts = current_ts]
           /\ h_ret' = intensity
    /\ HawkOnly

HawkSpecInit ==
    /\ RingParked /\ GateParked /\ PosInit /\ LobInit /\ ConInit /\ MpInit /\ SigInit
    /\ OfiInit /\ FlowInit /\ MetaInit
    /\ \E alpha \in HawkesAlphas : HawkesBuilt(alpha)

HawkNext == \E current_ts \in Timestamps, is_event \in BOOLEAN :
                H_Update(current_ts, is_event)

HawkSpec == HawkSpecInit /\ [][HawkNext]_vars

\* --------------------------------------------------------------------
\* Claims on HawkesTracker (specification HawkSpec)
\* --------------------------------------------------------------------
\* The jumps of the intensity before the last call, each dt older.
Older(dt) ==
    [k \in 1..Len(h_prev.intensity) |->
        <<h_prev.intensity[k][1], h_prev.intensity[k][2] + dt>>]

\* The intensity that the last call started from, after its decay step.
AfterDecay ==
    IF h_op.current_ts <= h_prev.last_ts THEN h_prev.intensity
    ELSE Older(h_op.current_ts - h_prev.last_ts)

\* Claim C34: after update(current_ts, is_event), if current_ts <= last_ts no
\* decay was applied: the intensity is unchanged when is_event is false and
\* larger by exactly alpha when it is true; if current_ts > last_ts the jump
\* was added after the decay, undecayed; in every case last_ts = current_ts,
\* and the call returned the new intensity.
C34_DecayThenJump ==
    h_calls >= 1 =>
        /\ ~h_op.is_event => hawk.intensity = AfterDecay
        /\ h_op.is_event =>
               hawk.intensity = Append(AfterDecay, <<h_prev.alpha, 0>>)
        /\ hawk.last_ts = h_op.current_ts
        /\ h_ret = hawk.intensity
        /\ hawk.alpha = h_prev.alpha

\* An event at a timestamp earlier than last_ts: the earlier jump kept its
\* age, a new jump was added and last_ts moved backwards.
C34_Witness ==
    /\ h_calls >= 2 /\ h_op.is_event
    /\ h_op.current_ts < h_prev.last_ts
    /\ hawk.alpha = 1
    /\ Len(h_prev.intensity) >= 1
    /\ h_prev.intensity[1][2] > 0
    /\ hawk.intensity = Append(h_prev.intensity, <<1, 0>>)
    /\ hawk.last_ts < h_prev.last_ts

\* --------------------------------------------------------------------
\* The Hawkes state embedded in MetaAlpha (specification MetaSpec)
\* --------------------------------------------------------------------
\* The intensity mu + c[1] + c[2]*d + ... is mu itself.
MetaAtMu(c) == \A k \in 1..Len(c) : c[k] = 0

\* It is below mu. The coefficients are 0 or hawkes_alpha except the last, the
\* starting offset; as 0 < d < 1 and hawkes_alpha > hawkes_mu, one jump
\* outweighs the offset, so the sum is negative exactly when there is an
\* offset below 0 and no jump.
MetaBelowMu(c) ==
    /\ \E k \in 1..Len(c) : c[k] < 0
    /\ \A k \in 1..Len(c) : c[k] <= 0

\* Claim C35: the Hawkes state embedded in MetaAlpha has intensity = its mu on
\* construction, and the intensity never falls below mu after any sequence of
\* updates (hawkes_alpha = 0.2 >= 0).
C35_StartsAtBaseline ==
    /\ ma_calls = 0 => MetaAtMu(meta.hawkes_intensity)
    /\ ~MetaBelowMu(meta.hawkes_intensity)

\* HawkesTracker's half of claim C35 (specification HawkSpec): intensity = mu
\* after new, and with alpha >= 0 no jump is negative.
C35_HawkesTracker ==
    /\ h_calls = 0 => hawk.intensity = <<>>
    /\ \A k \in 1..Len(hawk.intensity) : hawk.intensity[k][1] >= 0

\* ====================================================================
\* The book signals: AlphaDepthSlope (alpha.rs), AlphaRegimePressure
\* (alpha_pressure.rs) and AlphaRegimeReversal (alpha_reversal.rs), each
\* calculated on the LimitOrderBook of lob.rs
\* ====================================================================
\* Calls of calculate in one run.
MaxCalc == 3

\* alpha.rs:27  depth_levels
DEPTH_LEVELS == 10

SigOnly == UNCHANGED <<ringVars, gateVars, posVars, lobVars, conVars, mpVars, ofiVars, flowVars, metaVars, hawkVars>>

\* ------------------------------------------------------- exact fractions
\* The prices and thresholds below are binary fractions, and the sums, means
\* and returns of the runs are computed as exact fractions in lowest terms.
RECURSIVE Gcd(_, _)
Gcd(a, b) == IF b = 0 THEN a ELSE Gcd(b, a % b)

Frac(num, den) ==
    LET g == Gcd(Abs(num), Abs(den))
        s == IF den < 0 THEN 0 - 1 ELSE 1
    IN  Rat((s * num) \div g, (s * den) \div g)

RatAdd(a, b) == Frac(a.num * b.den + b.num * a.den, a.den * b.den)
RatSub(a, b) == Frac(a.num * b.den - b.num * a.den, a.den * b.den)
RatMul(a, b) == Frac(a.num * b.num, a.den * b.den)
RatDiv(a, b) == Frac(a.num * b.den, a.den * b.num)

\* x > 0.0, false for NaN
RatPos(x) == ~x.nan /\ x.num > 0

\* alpha_reversal.rs:49-60 and alpha_pressure.rs:35-46  one side has no level
EmptySide(bid_book, ask_book) == DOMAIN bid_book = {} \/ DOMAIN ask_book = {}

\* ------------------------------------------------------ AlphaDepthSlope
\* alpha.rs:61-65  the volumes of the first n_levels levels, best first
SideVolumes(book, n_levels, reverse) ==
    LET keys == IF reverse THEN Descending(DOMAIN book, n_levels)
                ELSE Ascending(DOMAIN book, n_levels)
    IN  [i \in 1..Len(keys) |-> book[keys[i]]]

\* alpha.rs:50-101  compute_side_slope: 0.0 with fewer than two levels, else the
\* slope of the regression of ln(v + 1) on the level number 1..n. The slope is
\* kept as the volumes it is computed from, <<>> for 0.0; var_x is
\* n * (n * n - 1) / 12 >= 0.5, so the test of line 94 never returns.
SideSlope(book, n_levels, reverse) ==
    LET volumes == SideVolumes(book, n_levels, reverse)
    IN  IF Len(volumes) < 2 THEN <<>> ELSE volumes

\* alpha.rs:23-46  calculate on the book (bid_book, ask_book): the instance
\* after the call and the returned ewma_signal
DepthSlopeCalculated(st, bid_book, ask_book) ==
    LET bid_slope == SideSlope(bid_book, DEPTH_LEVELS, TRUE)
        ask_slope == SideSlope(ask_book, DEPTH_LEVELS, FALSE)
        raw_signal == [bid |-> bid_slope, ask |-> ask_slope]
        ewma_signal == IF ~st.initialized THEN <<raw_signal>>
                       ELSE Append(st.ewma_signal, raw_signal)
    IN  [st |-> [st EXCEPT !.ewma_signal = ewma_signal, !.initialized = TRUE],
         ret |-> ewma_signal]

D_Calculate ==
    /\ s_calls < MaxCalc
    /\ s_calls' = s_calls + 1
    /\ s_op' = [signal |-> "slope", empty |-> EmptySide(bids, asks)]
    /\ LET out == DepthSlopeCalculated(dslope, bids, asks)
       IN  /\ dslope' = out.st
           /\ d_ret' = out.ret
    /\ d_first' = ~dslope.initialized
    /\ UNCHANGED <<press, rev, pr_ret, r_ret, r_mids, r_prev>>
    /\ SigOnly

\* ---------------------------------- AlphaRegimePressure, AlphaRegimeReversal
\* alpha_reversal.rs:49-62 and alpha_pressure.rs:35-48  the mid price of a
\* two-sided book
MidPrice(bid_book, ask_book) ==
    LET bid_p == PriceOf(MaxKey(DOMAIN bid_book))
        ask_p == PriceOf(MinKey(DOMAIN ask_book))
    IN  RatDiv(RatAdd(bid_p, ask_p), Rat(2, 1))

\* alpha_reversal.rs:65-78, the same text as alpha_pressure.rs:54-69: the
\* volatility fields after the step, and vol_sq, the square of current_vol
VolUpdated(st, mid) ==
    LET moved == st.initialized /\ RatPos(mid) /\ RatPos(st.prev_mid)
        ret == RatDiv(RatSub(mid, st.prev_mid), st.prev_mid)
        ret_sq == RatMul(ret, ret)
        variance == RatAdd(RatMul(st.vol_alpha, ret_sq),
                           RatMul(RatSub(Rat(1, 1), st.vol_alpha), st.ewma_variance))
    IN  [st |-> [st EXCEPT !.ewma_variance = IF moved THEN variance ELSE @,
                           !.initialized = TRUE,
                           !.prev_mid = mid],
         vol_sq |-> IF moved THEN variance ELSE Rat(0, 1)]

\* alpha_reversal.rs:97 and alpha_pressure.rs:72  current_vol < vol_threshold,
\* with current_vol the square root of vol_sq
GateClosed(vol_sq, vol_threshold) ==
    /\ RatPos(vol_threshold)
    /\ RatLt(vol_sq, RatMul(vol_threshold, vol_threshold))

FSub(a, b) == IF a.nan \/ b.nan THEN NaN ELSE Num(a.v - b.v)

Gave(v) == [kind |-> "value", v |-> v]
\* The index of line 82 is out of bounds: the call panics.
Panicked == [kind |-> "panic", v |-> Rat(0, 1)]

\* alpha_pressure.rs:33-85  calculate
PressureCalculated(st, bid_book, ask_book) ==
    IF EmptySide(bid_book, ask_book) THEN [st |-> st, ret |-> Gave(Num(0))]
    ELSE LET bid_v == bid_book[MaxKey(DOMAIN bid_book)]
             ask_v == ask_book[MinKey(DOMAIN ask_book)]
             vol == VolUpdated(st, MidPrice(bid_book, ask_book))
         IN  [st |-> vol.st,
              ret |-> IF GateClosed(vol.vol_sq, st.vol_threshold)
                      THEN Gave(Num(0))
                      ELSE Gave(FSub(bid_v, ask_v))]

P_Calculate ==
    /\ s_calls < MaxCalc
    /\ s_calls' = s_calls + 1
    /\ s_op' = [signal |-> "pressure", empty |-> EmptySide(bids, asks)]
    /\ LET out == PressureCalculated(press, bids, asks)
       IN  /\ press' = out.st
           /\ pr_ret' = out.ret
    /\ UNCHANGED <<dslope, rev, d_ret, d_first, r_ret, r_mids, r_prev>>
    /\ SigOnly

SmaUpdated_NeverEvicts(st, mid) ==
    [st EXCEPT !.buffer[st.idx + 1] = mid,
               !.sum = RatAdd(st.sum, mid),
               !.count = IF st.count < st.window_size THEN st.count + 1 ELSE @,
               !.idx = (st.idx + 1) % st.window_size]

\* alpha_reversal.rs:80-94  the rolling sum over the last window_size mids
SmaUpdated(st, mid) ==
    LET old_val == st.buffer[st.idx + 1]
        filling == st.count < st.window_size
    IN  [st EXCEPT !.buffer[st.idx + 1] = mid,
                   !.sum = IF filling THEN RatAdd(st.sum, mid)
                           ELSE RatAdd(RatSub(st.sum, old_val), mid),
                   !.count = IF filling THEN st.count + 1 ELSE @,
                   !.idx = (st.idx + 1) % st.window_size]

\* alpha_reversal.rs:96-112  the signal once the window is updated. The mean
\* of book prices is a multiple of 0.0001 / (2 * count), so ma > 1e-9 is ma > 0.
ReversalSignal(st, mid, vol_sq) ==
    LET ma == RatDiv(st.sum, Rat(st.count, 1))
    IN  IF GateClosed(vol_sq, st.vol_threshold) THEN Rat(0, 1)
        ELSE IF st.count > 0 /\ RatPos(ma)
             THEN RatSub(Rat(0, 1), RatDiv(RatSub(mid, ma), ma))
             ELSE Rat(0, 1)

\* alpha_reversal.rs:47-113  calculate. With window_size = 0 the buffer is
\* empty and line 82 panics, after the volatility fields are written.
ReversalCalculated(st, bid_book, ask_book) ==
    IF EmptySide(bid_book, ask_book) THEN [st |-> st, ret |-> Gave(Rat(0, 1))]
    ELSE LET mid == MidPrice(bid_book, ask_book)
             vol == VolUpdated(st, mid)
         IN  IF st.idx >= Len(st.buffer) THEN [st |-> vol.st, ret |-> Panicked]
             ELSE LET after == SmaUpdated(vol.st, mid)
                  IN  [st |-> after,
                       ret |-> Gave(ReversalSignal(after, mid, vol.vol_sq))]

R_Calculate ==
    /\ s_calls < MaxCalc
    /\ s_calls' = s_calls + 1
    /\ s_op' = [signal |-> "reversal", empty |-> EmptySide(bids, asks)]
    /\ LET out == ReversalCalculated(rev, bids, asks)
       IN  /\ rev' = out.st
           /\ r_ret' = out.ret
    /\ r_mids' = IF EmptySide(bids, asks) THEN r_mids
                 ELSE Append(r_mids, MidPrice(bids, asks))
    /\ r_prev' = rev
    /\ UNCHANGED <<dslope, press, d_ret, d_first, pr_ret>>
    /\ SigOnly

\* --------------------------------------------- AlphaDepthSlope on a book
\* Bids at 1.0 and 2.0, asks at 3.0 and 4.0; the bid at 2.0 can be removed.
SlopeUpdates ==
    {<<TRUE, Rat(1, 1), Num(1)>>, <<TRUE, Rat(2, 1), Num(2)>>,
     <<TRUE, Rat(2, 1), Num(0)>>, <<FALSE, Rat(3, 1), Num(1)>>,
     <<FALSE, Rat(4, 1), Num(1)>>}

SlopeWindows == {1, 3}

SlopeSpecInit ==
    /\ RingParked /\ GateParked /\ PosInit /\ LobInit /\ ConInit /\ MpInit
    /\ OfiInit /\ FlowInit /\ MetaInit /\ HawkInit
    /\ \E window_size \in SlopeWindows : SigBuilt(window_size, 1, Rat(0, 1), 1)

SlopeNext ==
    \/ \E u \in SlopeUpdates : L_Update(u[1], u[2], u[3])
    \/ D_Calculate

SlopeSpec == SlopeSpecInit /\ [][SlopeNext]_vars

\* ------------------- AlphaRegimePressure and AlphaRegimeReversal on a book
\* A bid at 1.0 and asks at 2.0 and 3.0; the bid and the ask at 2.0 can be
\* removed. The mid prices are 1.5 and 2.0.
RegimeUpdates ==
    {<<TRUE, Rat(1, 1), Num(1)>>, <<TRUE, Rat(1, 1), Num(0)>>,
     <<FALSE, Rat(2, 1), Num(1)>>, <<FALSE, Rat(2, 1), Num(0)>>,
     <<FALSE, Rat(3, 1), Num(2)>>}

VolWindows == {1, 3}
\* 0.0 and 0.3125: the returns between the two mid prices are 1/3 and -1/4.
VolThresholds == {Rat(0, 1), Rat(5, 16)}

RegimeSpecInit ==
    /\ RingParked /\ GateParked /\ PosInit /\ LobInit /\ ConInit /\ MpInit
    /\ OfiInit /\ FlowInit /\ MetaInit /\ HawkInit
    /\ \E vol_window \in VolWindows, vol_threshold \in VolThresholds,
          sma_window \in 0..MaxWindow :
          SigBuilt(1, vol_window, vol_threshold, sma_window)

RegimeNext ==
    \/ \E u \in RegimeUpdates : L_Update(u[1], u[2], u[3])
    \/ P_Calculate
    \/ R_Calculate

RegimeSpec == RegimeSpecInit /\ [][RegimeNext]_vars

\* ====================================================================
\* Claims on the book signals (specifications SlopeSpec and RegimeSpec)
\* ====================================================================
RECURSIVE Pow(_, _)
Pow(b, e) == IF e = 0 THEN 1 ELSE b * Pow(b, e - 1)

\* The product of (v + 1) ^ |2 * i - n - 1| over the levels i of the n whose
\* weight 2 * i - n - 1 has the sign of side.
RECURSIVE WeightedProduct(_, _, _)
WeightedProduct(volumes, i, side) ==
    IF i > Len(volumes) THEN 1
    ELSE LET w == side * (2 * i - Len(volumes) - 1)
         IN  (IF w > 0 THEN Pow(volumes[i].v + 1, w) ELSE 1)
             * WeightedProduct(volumes, i + 1, side)

\* A side slope is 0: it is the 0.0 of fewer than two levels, or no volume is
\* NaN and the weighted logarithms cancel (for two levels: equal volumes).
SlopeIsZero(volumes) ==
    \/ volumes = <<>>
    \/ /\ \A i \in 1..Len(volumes) : ~volumes[i].nan
       /\ WeightedProduct(volumes, 1, 1) = WeightedProduct(volumes, 1, 0 - 1)

\* The raw signal bid_slope - ask_slope is 0.
RawIsZero(raw) ==
    \/ SlopeIsZero(raw.bid) /\ SlopeIsZero(raw.ask)
    \/ raw.bid = raw.ask

LastWas(signal) == s_op.signal = signal /\ s_op.empty

\* Claim C36: when the bid side or the ask side of the LimitOrderBook is
\* empty, AlphaRegimePressure.calculate, AlphaRegimeReversal.calculate and
\* AlphaDepthSlope.calculate (on its first call) each return 0 and do not fail.
C36_EmptySideGivesZero ==
    /\ LastWas("slope") /\ d_first => Len(d_ret) = 1 /\ RawIsZero(d_ret[1])
    /\ LastWas("pressure") => pr_ret = Gave(Num(0))
    /\ LastWas("reversal") => r_ret = Gave(Rat(0, 1))

\* The halves of claim C36 on AlphaRegimePressure and AlphaRegimeReversal
\* (specification RegimeSpec): 0 is returned on a book with an empty side,
\* also by an AlphaRegimeReversal with sma_window = 0.
C36_RegimeSignals ==
    /\ LastWas("pressure") => pr_ret = Gave(Num(0))
    /\ LastWas("reversal") => r_ret = Gave(Rat(0, 1))

\* The sum of the last k of the mid prices.
RECURSIVE SumOfLast(_, _)
SumOfLast(mids, k) ==
    IF k = 0 \/ mids = <<>> THEN Rat(0, 1)
    ELSE RatAdd(SumOfLast(SubSeq(mids, 1, Len(mids) - 1), k - 1), mids[Len(mids)])

\* The fields of the rolling mean and of the volatility monitor are those of
\* before the call.
ReversalKept ==
    /\ rev.sum = r_prev.sum /\ rev.count = r_prev.count /\ rev.idx = r_prev.idx
    /\ rev.buffer = r_prev.buffer /\ rev.prev_mid = r_prev.prev_mid
    /\ rev.ewma_variance = r_prev.ewma_variance

\* Claim C37: after every AlphaRegimeReversal.calculate on a two-sided book,
\* count <= sma_window and sum is the sum of the most recent
\* min(count, sma_window) mid prices observed on two-sided books, whether or
\* not the volatility gate is open; a calculate on a book with an empty side
\* changes none of sum, count, idx, buffer, prev_mid and ewma_variance.
C37_RollingSma ==
    /\ rev.count <= rev.window_size
    /\ rev.sum = SumOfLast(r_mids, Min(rev.count, rev.window_size))
    /\ LastWas("reversal") => ReversalKept

\* The window is full and has dropped a mid price that differs from the one
\* that came in, in a call that found the gate closed.
C37_Witness ==
    /\ s_op = [signal |-> "reversal", empty |-> FALSE]
    /\ rev.count = rev.window_size
    /\ Len(r_mids) > rev.window_size
    /\ rev.sum # SumOfLast(r_mids, Len(r_mids))
    /\ rev.sum # r_prev.sum
    /\ GateClosed(rev.ewma_variance, rev.vol_threshold)
    /\ r_ret = Gave(Rat(0, 1))

====
